---- MODULE Spec2Model ----
(***************************************************************************)
(* Model of the unHabit agent pipeline (src/utils/agents.py), its write    *)
(* gateway (src/tools/vector_tool.py), the store (src/tools/memory.py) and *)
(* the HTTP orchestration (src/main.py).                                   *)
(*                                                                         *)
(* Python dicts keyed by user id are functions whose DOMAIN is the set of  *)
(* keys present.  Python None is the string "None".  Text is kept as a     *)
(* run-length encoded string (a sequence of runs [c, n]) so that a reply   *)
(* longer than 300 characters is representable.                            *)
(***************************************************************************)
EXTENDS Integers, Sequences, FiniteSets, TLC

VARIABLES
    steps,                \* operations performed so far (bounds the runs)
    conversation_buffer,  \* ReflectionsAgent.conversation_buffer
    pending_tasks,        \* GoalPlannerAgent.pending_tasks
    feedback_buffer,      \* SupportAgent.feedback_buffer
    pending_data,         \* AssessmentAgent.pending_data
    store,                \* the four Chroma collections of ChromaDBManager
    clock,                \* source of datetime.now() / uuid4() freshness
    background_tasks,     \* flushes queued by BackgroundTasks.add_task
    calls,                \* the endSession calls in progress, one per thread
    llm_response,         \* the model reply scripted for a run, or None
    serper_response,      \* the search results scripted for a run, or None
    caller_filters,       \* the filters dict a caller of search keeps, or None
    last                  \* the last operation, its arguments and result

vars == <<steps, conversation_buffer, pending_tasks, feedback_buffer,
          pending_data, store, clock, background_tasks, calls, llm_response,
          serper_response, caller_filters, last>>

\* the record of an operation: its name, the user it was called for, its
\* arguments, and what it returned or raised
Called(op, user, arg, ret) == [op |-> op, user |-> user, arg |-> arg, ret |-> ret]

-----------------------------------------------------------------------------
(* Bounds of the model *)

MaxSteps == 4         \* operations in a run of SpecAssess
MaxSessionSteps == 4  \* operations in a run of SpecSession
MaxSystemSteps == 3   \* operations in a run of Spec
MaxReply == 3         \* runs of characters in a scripted model reply
MaxGoalSteps == 4     \* operations in a run of SpecGoals
MaxFeedbackSteps == 4 \* operations in a run of SpecFeedback
MaxIntakeSteps == 4   \* operations in a run of SpecIntake
MaxMixed == 4         \* search results in a list of any candidates
MaxStoreSteps == 3    \* operations in a run of SpecStore
MaxMaintainSteps == 3 \* operations in a run of SpecMaintain
MaxDeferredSteps == 4 \* client operations in a run of SpecDeferred
MaxDeferredClock == 8 \* store writes that succeed in a run of SpecDeferred
MaxRaceSteps == 7     \* steps of the calls in a run of SpecRace
MaxWindowSteps == 5   \* operations in a run of SpecWindow
MaxPipelineSteps == 8 \* statements run in a run of SpecPipeline
MaxProviderSteps == 3 \* operations in a run of SpecProviders
MaxFlushRaceSteps == 14 \* steps of the calls in a run of SpecFlushRace
MaxIsolationSteps == 3 \* operations in a run of SpecIsolation
MaxGraded == 2        \* candidates in a list of a run of SpecThreshold
MaxFilterSteps == 4   \* searches in a run of SpecFilters
MaxHistorySteps == 4  \* operations in a run of SpecHistory
MaxHeld == 2          \* items an accumulator holds in a run of SpecFlushRace
MaxResults == 6       \* search results in a list of relevant candidates

Users == {"u1", "u2"}
RaceUser == "u1"
Msgs == {"m1", "m2"}
None == "None"

-----------------------------------------------------------------------------
(* Python dict operations *)

EmptyDict == <<>>
Has(d, k) == k \in DOMAIN d
Get(d, k, default) == IF k \in DOMAIN d THEN d[k] ELSE default
Put(d, k, v) == [x \in (DOMAIN d) \cup {k} |-> IF x = k THEN v ELSE d[x]]
Del(d, k) == [x \in (DOMAIN d) \ {k} |-> d[x]]

-----------------------------------------------------------------------------
(* Text: run-length encoded strings.  A run [c, n] is n characters of     *)
(* kind c:                                                                 *)
(*   "{" "}" "[" "]" ","   JSON punctuation                                *)
(*   "v"   a JSON scalar literal (a number, a quoted string, true, null)    *)
(*   "x"   characters that are not part of JSON                            *)
(*   "K"   a JSON object literal holding well-typed summary fields         *)
(*   "W"   a JSON object literal whose summary fields have wrong types     *)
(*   "E"   the empty JSON object literal                                   *)
(*   "G" "H"  JSON object literals that validate as (two different) Goals  *)
(*   "B"   a JSON object literal that fails Goal validation                *)
(* An object literal starts with "{" and ends with "}".  Goal literals     *)
(* hold no brackets; "K" and "W" hold bracketed lists, so they are kept    *)
(* out of the replies given to the bracket search of _parse_goals.         *)

Run(c, n) == [c |-> c, n |-> n]
ObjectKinds == {"K", "W", "E", "G", "H", "B"}
\* the kinds of run in which character ch occurs first / last
StartsWith(ch) == IF ch = "{" THEN {"{"} \cup ObjectKinds ELSE {ch}
EndsWith(ch) == IF ch = "}" THEN {"}"} \cup ObjectKinds ELSE {ch}

RECURSIVE StrLen(_)
StrLen(s) == IF s = <<>> THEN 0 ELSE Head(s).n + StrLen(Tail(s))

\* str.find(c): index of the first occurrence, -1 when absent
RECURSIVE FindFrom(_, _, _)
FindFrom(s, c, off) ==
    IF s = <<>> THEN -1
    ELSE IF Head(s).c \in StartsWith(c) THEN off
    ELSE FindFrom(Tail(s), c, off + Head(s).n)
Find(s, c) == FindFrom(s, c, 0)

\* str.rfind(c): index of the last occurrence, -1 when absent
RECURSIVE RFindFrom(_, _, _, _)
RFindFrom(s, c, off, best) ==
    IF s = <<>> THEN best
    ELSE RFindFrom(Tail(s), c, off + Head(s).n,
                   IF Head(s).c \in EndsWith(c)
                   THEN off + Head(s).n - 1 ELSE best)
RFind(s, c) == RFindFrom(s, c, 0, -1)

\* s[:n]
RECURSIVE Take(_, _)
Take(s, n) ==
    IF s = <<>> \/ n <= 0 THEN <<>>
    ELSE IF Head(s).n <= n THEN <<Head(s)>> \o Take(Tail(s), n - Head(s).n)
    ELSE <<Run(Head(s).c, n)>>

\* s[n:]
RECURSIVE Drop(_, _)
Drop(s, n) ==
    IF s = <<>> \/ n <= 0 THEN s
    ELSE IF Head(s).n <= n THEN Drop(Tail(s), n - Head(s).n)
    ELSE <<Run(Head(s).c, Head(s).n - n)>> \o Tail(s)

\* s[a:b]
Slice(s, a, b) == Take(Drop(s, a), b - a)

\* the JSON tokens of a text: an object literal or a run of non-JSON
\* characters is one token, n punctuation marks or scalars are n tokens
RECURSIVE Repeat(_, _)
Repeat(c, n) == IF n <= 0 THEN <<>> ELSE <<c>> \o Repeat(c, n - 1)
RECURSIVE Tokens(_)
Tokens(s) ==
    IF s = <<>> THEN <<>>
    ELSE (IF Head(s).c \in ObjectKinds \cup {"x"} THEN <<Head(s).c>>
          ELSE Repeat(Head(s).c, Head(s).n))
         \o Tokens(Tail(s))

-----------------------------------------------------------------------------
(* json.loads over the tokens.  A value is a scalar, an object literal, a   *)
(* pair of braces (the empty object) or an array of values; anything else  *)
(* is a JSONDecodeError.                                                   *)

JScalar == [t |-> "scalar", m |-> "", e |-> <<>>]
JObject(m) == [t |-> "object", m |-> m, e |-> <<>>]
JArray(e) == [t |-> "array", m |-> "", e |-> e]
JSONDecodeError == [t |-> "JSONDecodeError", m |-> "", e |-> <<>>]
PFail == [ok |-> FALSE, v |-> JSONDecodeError, nx |-> 0]
POk(v, nx) == [ok |-> TRUE, v |-> v, nx |-> nx]

RECURSIVE PValue(_, _)
RECURSIVE PElems(_, _, _)
\* after element el of an array: its end, a comma and the rest, or an error
PAfterElem(t, el, acc) ==
    IF ~el.ok THEN PFail
    ELSE IF el.nx <= Len(t) /\ t[el.nx] = "]"
         THEN POk(JArray(Append(acc, el.v)), el.nx + 1)
    ELSE IF el.nx <= Len(t) /\ t[el.nx] = ","
         THEN PElems(t, el.nx + 1, Append(acc, el.v))
    ELSE PFail
PValue(t, i) ==
    IF i > Len(t) THEN PFail
    ELSE IF t[i] = "v" THEN POk(JScalar, i + 1)
    ELSE IF t[i] \in ObjectKinds THEN POk(JObject(t[i]), i + 1)
    ELSE IF t[i] = "{" /\ i + 1 <= Len(t) /\ t[i + 1] = "}"
         THEN POk(JObject("E"), i + 2)
    ELSE IF t[i] = "[" THEN
        IF i + 1 <= Len(t) /\ t[i + 1] = "]" THEN POk(JArray(<<>>), i + 2)
        ELSE PElems(t, i + 1, <<>>)
    ELSE PFail
PElems(t, i, acc) == PAfterElem(t, PValue(t, i), acc)

\* the value when the whole text was consumed
PWhole(t, r) == IF r.ok /\ r.nx = Len(t) + 1 THEN r.v ELSE JSONDecodeError
PTokens(t) == PWhole(t, PValue(t, 1))
json_loads(s) == PTokens(Tokens(s))

\* the text handed to json.loads: from the first opening to the last closing
\* mark when both are found in that order, the whole response otherwise
ExtractJson(response, json_start, json_end) ==
    IF json_start # -1 /\ json_end > json_start
    THEN Slice(response, json_start, json_end) ELSE response

-----------------------------------------------------------------------------
(* Data models (pydantic).  The timestamp fields, set from datetime.now(), *)
(* are left out of the in-memory items; store records carry the clock.     *)

SummaryMax == 300

ReflectionSummary(user_id, summary, emotional_tone, key_themes, insights) ==
    [user_id |-> user_id, summary |-> summary,
     emotional_tone |-> emotional_tone, key_themes |-> key_themes,
     insights |-> insights]

Goal(title, description, priority, duration_minutes, recurrence) ==
    [title |-> title, description |-> description, priority |-> priority,
     duration_minutes |-> duration_minutes, recurrence |-> recurrence]

TaskPayload(user_id, goals, source_summary) ==
    [user_id |-> user_id, goals |-> goals, source_summary |-> source_summary]

UserFeedback(user_id, recommendation_id, reaction, notes) ==
    [user_id |-> user_id, recommendation_id |-> recommendation_id,
     reaction |-> reaction, notes |-> notes]

Message(role, content) == [role |-> role, content |-> content]

\* what an operation hands back: a value, or the exception it raised
Return(v) == [exc |-> None, value |-> v]
Raise(e) == [exc |-> e, value |-> None]

-----------------------------------------------------------------------------
(* Agent 1: ReflectionsAgent *)

start_reflection_session(buf, user_id, initial_message, response) ==
    Put(buf, user_id, <<Message("user", initial_message),
                        Message("assistant", response)>>)

\* a history that is never windowed
whole_conversation(conversation) == conversation

\* the messages formatted into the CONTINUE_CONVERSATION prompt
recent_conversation(conversation) ==
    IF Len(conversation) <= 6 THEN conversation
    ELSE SubSeq(conversation, Len(conversation) - 5, Len(conversation))

\* f"{msg['role'].upper()}: {msg['content']}" of each message, joined by
\* newlines: a line is the pair of the upper-cased role and the content
Upper(role) == IF role = "user" THEN "USER" ELSE "ASSISTANT"
format_history(messages) ==
    [i \in DOMAIN messages |->
        <<Upper(messages[i].role), messages[i].content>>]
\* lines 125-136: the history of the prompt of a continue; none when the
\* call starts a new session instead
continue_history(buf, user_id) ==
    format_history(recent_conversation(Get(buf, user_id, <<>>)))
\* lines 175-183: the conversation text of the summarization prompt
full_conversation(buf, user_id) == format_history(Get(buf, user_id, <<>>))

\* a continue that does nothing for a user without a session
continue_reflection_strict(buf, user_id, message, response) ==
    IF Get(buf, user_id, <<>>) = <<>> THEN buf
    ELSE Put(buf, user_id,
             Append(Append(buf[user_id], Message("user", message)),
                    Message("assistant", response)))

\* a continue that restarts the conversation
continue_reflection_reset(buf, user_id, message, response) ==
    start_reflection_session(buf, user_id, message, response)

\* a continue that stores the user's message without the reply
continue_reflection_unanswered(buf, user_id, message, response) ==
    IF Get(buf, user_id, <<>>) = <<>>
    THEN start_reflection_session(buf, user_id, message, response)
    ELSE Put(buf, user_id, Append(buf[user_id], Message("user", message)))

continue_reflection(buf, user_id, message, response) ==
    IF Get(buf, user_id, <<>>) = <<>>
    THEN start_reflection_session(buf, user_id, message, response)
    ELSE Put(buf, user_id,
             Append(Append(buf[user_id], Message("user", message)),
                    Message("assistant", response)))

\* the dict decoded from a JSON object literal, as summary_data.get sees it:
\* keys present, whether the values pass ReflectionSummary validation, values
SummaryKeys == {"summary", "emotional_tone", "key_themes", "insights"}
KSummaryText == <<Run("s", 40)>>
DictOfObject(kind) ==
    [keys |-> IF kind \in {"K", "W"} THEN SummaryKeys ELSE {},
     typed |-> kind # "W",
     summary |-> KSummaryText, emotional_tone |-> "hopeful",
     key_themes |-> <<"habits">>, insights |-> <<"insight">>]

FallbackSummaryData(response) ==
    [keys |-> SummaryKeys, typed |-> TRUE,
     summary |-> IF StrLen(response) > SummaryMax
                 THEN Take(response, SummaryMax) ELSE response,
     emotional_tone |-> "reflective",
     key_themes |-> <<"self-reflection">>, insights |-> <<>>]

DictGet(d, key, default) == IF key \in d.keys THEN d[key] ELSE default

\* lines 187-204: the JSON value or the fallback dict
summary_json_text(response) ==
    ExtractJson(response, Find(response, "{"), RFind(response, "}") + 1)
summary_data_of(loaded, response) ==
    IF loaded = JSONDecodeError
    THEN [t |-> "object", d |-> FallbackSummaryData(response)]
    ELSE IF loaded.t = "object"
         THEN [t |-> "object", d |-> DictOfObject(loaded.m)]
         ELSE [t |-> loaded.t, d |-> DictOfObject("E")]
parse_summary_data(response) ==
    summary_data_of(json_loads(summary_json_text(response)), response)

\* lines 206-218: the ReflectionSummary built from summary_data, the buffer
\* entry deleted once it is built
build_summary(buf, user_id, summary_data) ==
    IF summary_data.t # "object"
    THEN [buf |-> buf, ret |-> Raise("AttributeError")]
    ELSE IF ~summary_data.d.typed
    THEN [buf |-> buf, ret |-> Raise("ValidationError")]
    ELSE [buf |-> Del(buf, user_id),
          ret |-> Return(ReflectionSummary(user_id,
                     DictGet(summary_data.d, "summary", <<>>),
                     DictGet(summary_data.d, "emotional_tone", "neutral"),
                     DictGet(summary_data.d, "key_themes", <<>>),
                     DictGet(summary_data.d, "insights", <<>>)))]

\* an endSession that summarizes whether or not a session exists
end_session_lenient(buf, user_id, response) ==
    build_summary(Put(buf, user_id, <<>>), user_id,
                  parse_summary_data(response))

\* a call of end_session_and_summarize in progress on a thread: where it is,
\* the conversation it read at line 180, the summary it built at lines
\* 206-213, and what it handed back
Threads == {"t1", "t2"}
CallFrame(pc, user_id, conversation, built, ret) == [pc |-> pc, user_id |-> user_id, conversation |-> conversation, built |-> built, ret |-> ret]
IdleCall == CallFrame("idle", None, <<>>, FALSE, Return(None))
\* line 180-183: the read of the buffer
end_session_read(buf, user_id) ==
    LET conversation == Get(buf, user_id, <<>>) IN
    IF conversation = <<>>
    THEN CallFrame("done", user_id, <<>>, FALSE, Raise("ValueError"))
    ELSE CallFrame("read", user_id, conversation, FALSE, Return(None))
\* lines 185-213: the model call and the summary, on the call's own data
end_session_summarize(frame, response) ==
    LET r == build_summary(EmptyDict, frame.user_id,
                           parse_summary_data(response)) IN
    IF r.ret.exc # None
    THEN CallFrame("done", frame.user_id, frame.conversation, FALSE, r.ret)
    ELSE CallFrame("summarized", frame.user_id, frame.conversation, TRUE,
                   r.ret)
\* an erase that tolerates a session already gone
end_session_erase_pop(buf, frame) ==
    [buf |-> IF Has(buf, frame.user_id) THEN Del(buf, frame.user_id) ELSE buf,
     frame |-> CallFrame("done", frame.user_id, frame.conversation, TRUE,
                         frame.ret)]
\* line 216: del self.conversation_buffer[user_id]
end_session_erase(buf, frame) ==
    IF Has(buf, frame.user_id)
    THEN [buf |-> Del(buf, frame.user_id),
          frame |-> CallFrame("done", frame.user_id, frame.conversation,
                              TRUE, frame.ret)]
    ELSE [buf |-> buf,
          frame |-> CallFrame("done", frame.user_id, frame.conversation,
                              TRUE, Raise("KeyError"))]

\* returns the buffer afterwards and the summary or the exception
end_session_and_summarize(buf, user_id, response) ==
    IF Get(buf, user_id, <<>>) = <<>>
    THEN [buf |-> buf, ret |-> Raise("ValueError")]
    ELSE build_summary(buf, user_id, parse_summary_data(response))

-----------------------------------------------------------------------------
(* Agent 2: GoalPlannerAgent *)

_create_fallback_goal ==
    <<Goal("Daily Reflection Check-in",
           "Take 10 minutes to reflect on today's progress and emotions",
           "medium", 10, "daily")>>

\* Goal(**goal_dict): the Goal a literal validates as
GoalValidates(el) == el.t = "object" /\ el.m \in {"G", "H"}
GoalOfObject(kind) ==
    IF kind = "G" THEN Goal("Walk", "Walk outside", "high", 30, "daily")
    ELSE Goal("Journal", "Write a page", "low", 15, None)

\* a loop that puts each goal that validates before the ones it has
RECURSIVE ValidGoalsReversed(_)
ValidGoalsReversed(goals_data) ==
    IF goals_data = <<>> THEN <<>>
    ELSE ValidGoalsReversed(Tail(goals_data))
         \o (IF GoalValidates(Head(goals_data))
             THEN <<GoalOfObject(Head(goals_data).m)>> ELSE <<>>)

RECURSIVE ValidGoals(_)
ValidGoals(goals_data) ==
    IF goals_data = <<>> THEN <<>>
    ELSE (IF GoalValidates(Head(goals_data))
          THEN <<GoalOfObject(Head(goals_data).m)>> ELSE <<>>)
         \o ValidGoals(Tail(goals_data))

goals_json_text(response) ==
    ExtractJson(response, Find(response, "["), RFind(response, "]") + 1)
goals_data_of(loaded) == IF loaded.t # "array" THEN <<loaded>> ELSE loaded.e
goals_or_fallback(goals) ==
    IF goals # <<>> THEN goals ELSE _create_fallback_goal
goals_of(loaded) ==
    IF loaded = JSONDecodeError THEN _create_fallback_goal
    ELSE goals_or_fallback(ValidGoals(goals_data_of(loaded)))

\* a parser that returns what validated, even when that is nothing
_parse_goals_unguarded(response) ==
    ValidGoals(goals_data_of(json_loads(goals_json_text(response))))

_parse_goals(response) == goals_of(json_loads(goals_json_text(response)))

\* a cache that keeps the first payload of a user
store_payload_first(tasks, task_payload) ==
    [tasks |-> IF Has(tasks, task_payload.user_id) THEN tasks
               ELSE Put(tasks, task_payload.user_id, task_payload),
     ret |-> task_payload]

\* returns the cache afterwards and the payload
store_payload(tasks, task_payload) ==
    [tasks |-> Put(tasks, task_payload.user_id, task_payload),
     ret |-> task_payload]
process_reflection_summary(tasks, summary, response) ==
    store_payload(tasks, TaskPayload(summary.user_id, _parse_goals(response),
                                     summary.summary))

get_pending_tasks(tasks, user_id) == Get(tasks, user_id, None)


-----------------------------------------------------------------------------
(* Agent 3: SupportAgent, the feedback buffer *)

record_feedback(fb, feedback) ==
    Put(fb, feedback.user_id,
        Append(Get(fb, feedback.user_id, <<>>), feedback))

\* a drain that hands the list back and leaves it in the buffer
get_feedback_keeping(fb, user_id) ==
    [fb |-> fb, ret |-> Get(fb, user_id, <<>>)]

\* returns the buffer afterwards and the drained list
get_feedback_for_assessment(fb, user_id) ==
    [fb |-> IF Has(fb, user_id) THEN Del(fb, user_id) ELSE fb,
     ret |-> Get(fb, user_id, <<>>)]

\* Serper results.  A text is the set of keywords and terms that occur in
\* it once lower-cased (the code tests `kw in text`) and its length.
SearchText(has, len) == [has |-> has, len |-> len]
SerperResult(title, snippet, url, position) ==
    [title |-> title, snippet |-> snippet, url |-> url, position |-> position]
SupportRecommendation(title, description, url, relevance_score, community_type, source_position) ==
    [title |-> title, description |-> description, url |-> url,
     relevance_score |-> relevance_score, community_type |-> community_type,
     source_position |-> source_position]

community_keywords ==
    {"support", "community", "group", "forum", "recovery", "addiction",
     "help", "peer", "online", "reddit", "discord", "therapy", "counseling",
     "anonymous", "meeting"}
builtin_excluded_keywords ==
    {"buy", "purchase", "sale", "shop", "product", "advertisement",
     "sponsored"}

\* a classifier that looks for a forum first
_classify_forum_first(has) ==
    IF "forum" \in has THEN "forum"
    ELSE IF "reddit" \in has THEN "reddit"
    ELSE IF "discord" \in has THEN "discord"
    ELSE IF "facebook" \in has THEN "facebook_group"
    ELSE IF "meetup" \in has THEN "meetup"
    ELSE IF "12" \in has /\ "step" \in has THEN "12_step_program"
    ELSE "online_community"

_classify_community_type(has) ==
    IF "reddit" \in has THEN "reddit"
    ELSE IF "discord" \in has THEN "discord"
    ELSE IF "forum" \in has THEN "forum"
    ELSE IF "facebook" \in has THEN "facebook_group"
    ELSE IF "meetup" \in has THEN "meetup"
    ELSE IF "12" \in has /\ "step" \in has THEN "12_step_program"
    ELSE "online_community"

\* The relevance score is a double: matches / 15, times 1.5 when a query term
\* occurs in the title.  It is kept in units of 1/300, which orders the values
\* as the doubles are ordered: matches / 15 is 20 units a match, and the
\* product by 1.5 is 30 units a match except where the double is not the
\* exact product (0.30000000000000004 and 0.6000000000000001 for 3 and 6
\* matches, 0.8999999999999999 and 1.0999999999999999 for 9 and 11,
\* 1.2000000000000002 for 12).
\* a score without the boost for a query term in the title
relevance_score_unboosted(result, query_terms) ==
    20 * Cardinality((result.title.has \cup result.snippet.has)
                     \cap community_keywords)

\* a score that is doubled for a query term in the title
relevance_score_doubled(result, query_terms) ==
    IF query_terms \cap result.title.has # {}
    THEN 40 * Cardinality((result.title.has \cup result.snippet.has)
                          \cap community_keywords)
    ELSE 20 * Cardinality((result.title.has \cup result.snippet.has)
                          \cap community_keywords)

boost_rounding(matches) ==
    IF matches \in {3, 6, 12} THEN 1 ELSE IF matches \in {9, 11} THEN -1 ELSE 0
matches_of(result) ==
    Cardinality((result.title.has \cup result.snippet.has)
                \cap community_keywords)
relevance_score(result, query_terms) ==
    IF query_terms \cap result.title.has # {}
    THEN 30 * matches_of(result) + boost_rounding(matches_of(result))
    ELSE 20 * matches_of(result)

\* list.sort(key = relevance_score, reverse = True): stable
RECURSIVE InsertByScore(_, _)
InsertByScore(sorted, r) ==
    IF sorted = <<>> THEN <<r>>
    ELSE IF Head(sorted).relevance_score >= r.relevance_score
         THEN <<Head(sorted)>> \o InsertByScore(Tail(sorted), r)
         ELSE <<r>> \o sorted
RECURSIVE SortByScore(_)
SortByScore(recs) ==
    IF recs = <<>> THEN <<>>
    ELSE InsertByScore(SortByScore(SubSeq(recs, 1, Len(recs) - 1)),
                       recs[Len(recs)])

\* the loop at lines 473-502; 0.1 is 30 units, 1.0 is 300
RECURSIVE FilterResults(_, _, _)
FilterResults(results, query_terms, excluded_keywords) ==
    IF results = <<>> THEN <<>>
    ELSE LET result == Head(results)
             combined_text == result.title.has \cup result.snippet.has
             score == relevance_score(result, query_terms)
         IN (IF combined_text \cap excluded_keywords # {} \/ score <= 30
             THEN <<>>
             ELSE <<SupportRecommendation(result.title,
                        SearchText(result.snippet.has,
                            IF result.snippet.len > 250 THEN 250
                            ELSE result.snippet.len),
                        result.url,
                        IF score > 300 THEN 300 ELSE score,
                        _classify_community_type(combined_text),
                        result.position)>>)
            \o FilterResults(Tail(results), query_terms, excluded_keywords)

\* a ranking that leaves the candidates in the client's order
_filter_and_rank_unsorted(results, query_terms, filters) ==
    FilterResults(results, query_terms,
        (IF Has(filters, "excluded_keywords")
         THEN filters["excluded_keywords"] ELSE {})
        \cup builtin_excluded_keywords)

\* a ranking without the built-in exclusion keywords
_filter_and_rank_keeping_ads(results, query_terms, filters) ==
    SortByScore(FilterResults(results, query_terms,
        IF Has(filters, "excluded_keywords")
        THEN filters["excluded_keywords"] ELSE {}))

\* filters is a dict that may hold "excluded_keywords"; None and the empty
\* dict, both false in `if filters`, are the empty dict here
_filter_and_rank(results, query_terms, filters) ==
    LET excluded_keywords ==
            (IF Has(filters, "excluded_keywords")
             THEN filters["excluded_keywords"] ELSE {})
            \cup builtin_excluded_keywords
    IN SortByScore(FilterResults(results, query_terms, excluded_keywords))

\* the built-in exclusion terms in the order of lines 466-469
builtin_excluded_list ==
    <<"buy", "purchase", "sale", "shop", "product", "advertisement",
      "sponsored">>

\* a ranking that extends a copy of the caller's list
excluded_keywords_copied(filters) == filters

\* lines 465-469 on the caller's dict, whose excluded_keywords is a list:
\* filters.get returns that list itself, which extend then lengthens; a dict
\* without the key gives a new list, and the dict stays as it is
excluded_keywords_extended(filters) ==
    IF Has(filters, "excluded_keywords")
    THEN [filters EXCEPT !["excluded_keywords"] = @ \o builtin_excluded_list]
    ELSE filters

\* the caller's dict as the ranking reads it: the keywords of the list
filters_read(filters) ==
    [k \in DOMAIN filters |->
        IF k = "excluded_keywords"
        THEN {filters[k][i] : i \in DOMAIN filters[k]}
        ELSE filters[k]]

search_communities(search_results, query_terms, filters) ==
    IF search_results = <<>> THEN <<>>
    ELSE LET recommendations ==
                 _filter_and_rank(search_results, query_terms, filters)
         IN IF Len(recommendations) <= 5 THEN recommendations
            ELSE SubSeq(recommendations, 1, 5)

-----------------------------------------------------------------------------
(* Metadata values carry their Python type, which _sanitize_metadata       *)
(* dispatches on.  json.dumps(x) is the text <<"json", x>> and             *)
(* ", ".join(map(str, l)) is the text <<"join", l>>.                       *)

PyNone == [ty |-> "none", v |-> <<>>]
PyStr(x) == [ty |-> "str", v |-> x]
PyInt(n) == [ty |-> "int", v |-> n]
PyList(l) == [ty |-> "list", v |-> l]
PyTuple(l) == [ty |-> "tuple", v |-> l]
PyDict(d) == [ty |-> "dict", v |-> d]
PySet(l) == [ty |-> "set", v |-> l]
json_dumps(x) == <<"json", x>>
join(l) == <<"join", l>>

\* {**a, **b}: the keys of b override those of a
Merge(a, b) ==
    [k \in (DOMAIN a) \cup (DOMAIN b) |-> IF k \in DOMAIN b THEN b[k] ELSE a[k]]

_sanitize_metadata(metadata) ==
    [k \in DOMAIN metadata |->
        LET val == metadata[k] IN
        IF val.ty = "none" THEN PyStr("")
        ELSE IF val.ty = "list" THEN PyStr(join(val.v))
        ELSE IF val.ty = "dict"
             THEN PyStr(json_dumps(
                    [ik \in DOMAIN val.v |->
                        IF val.v[ik].ty = "none" THEN PyStr("")
                        ELSE val.v[ik]]))
        ELSE IF val.ty \in {"set", "tuple"} THEN PyStr(join(val.v))
        ELSE val]

-----------------------------------------------------------------------------
(* ChromaDBManager: db = [store, clock].  A collection maps document ids   *)
(* to documents (add_documents with ids upserts).  ok = FALSE is a fault   *)
(* inside the try block.  The clock advances with every stored record, so  *)
(* timestamps and uuid4 values of successive writes differ.                *)

Collections == {"reflections", "goals", "states", "interactions"}
Document(page_content, metadata) ==
    [page_content |-> page_content, metadata |-> metadata]

add_document(db, coll, user_id, text, metadata, document_id, ok) ==
    IF ok
    THEN [db |-> [store |-> [db.store EXCEPT ![coll] =
                     Put(@, document_id,
                         Document(text, _sanitize_metadata(Merge(
                             [k \in {"user_id", "timestamp", "id"} |->
                                 IF k = "user_id" THEN PyStr(user_id)
                                 ELSE IF k = "timestamp" THEN PyInt(db.clock)
                                 ELSE PyStr(document_id)],
                             metadata))))],
                  clock |-> db.clock + 1],
          success |-> TRUE]
    ELSE [db |-> db, success |-> FALSE]

write_reflection(db, user_id, summary, metadata, document_id, ok) ==
    add_document(db, "reflections", user_id, summary, metadata, document_id, ok)

\* a goal write that files the record under the reflections
write_goal_misfiled(db, user_id, goal_summary, metadata, document_id, ok) ==
    add_document(db, "reflections", user_id, goal_summary, metadata,
                 document_id, ok)

write_goal(db, user_id, goal_summary, metadata, document_id, ok) ==
    add_document(db, "goals", user_id, goal_summary, metadata, document_id, ok)

write_user_state(db, user_id, state_summary, metadata, ok) ==
    add_document(db, "states", user_id, state_summary, metadata,
                 <<user_id, "state", db.clock>>, ok)

write_interaction(db, user_id, interaction_summary, metadata, document_id, ok) ==
    add_document(db, "interactions", user_id, interaction_summary, metadata,
                 document_id, ok)

\* similarity_search_with_score(k = n_results, filter = {"user_id": user_id}):
\* the ids of up to n_results documents of the user; a fault gives none
UserDocs(coll, user_id) ==
    {id \in DOMAIN coll : coll[id].metadata["user_id"] = PyStr(user_id)}
read_collection(db, coll, user_id, n_results, ok) ==
    IF ~ok THEN {}
    ELSE IF Cardinality(UserDocs(db.store[coll], user_id)) <= n_results
         THEN UserDocs(db.store[coll], user_id)
         ELSE CHOOSE S \in SUBSET UserDocs(db.store[coll], user_id) :
                 Cardinality(S) = n_results

\* delete_old_data: cutoff is now minus days_old.  Timestamps are ISO texts
\* of one format, which compare as the instants they denote; here they are
\* the clock values.  The library calls are, in order, get and delete on
\* the reflections, the goals and the interactions; fault = n makes the n-th
\* of the six raise (a delete is skipped when get found nothing), fault = 0
\* is a run without fault.  A delete that raises has removed nothing.
OldDocs(coll, user_id, cutoff) ==
    {id \in UserDocs(coll, user_id) : coll[id].metadata["timestamp"].v < cutoff}
Without(coll, ids) == [id \in (DOMAIN coll) \ ids |-> coll[id]]
\* one collection's turn: acc = [db, counts, failed]
delete_old_in(acc, name, user_id, cutoff, fault, call) ==
    LET old == OldDocs(acc.db.store[name], user_id, cutoff) IN
    IF acc.failed \/ fault = call THEN [acc EXCEPT !.failed = TRUE]
    ELSE IF old = {} THEN acc
    ELSE IF fault = call + 1 THEN [acc EXCEPT !.failed = TRUE]
    ELSE [db |-> [acc.db EXCEPT !.store[name] = Without(@, old)],
          counts |-> [acc.counts EXCEPT ![name] = Cardinality(old)],
          failed |-> FALSE]
delete_old_data(db, user_id, cutoff, fault) ==
    delete_old_in(
        delete_old_in(
            delete_old_in(
                [db |-> db,
                 counts |-> [c \in {"reflections", "goals", "interactions"} |-> 0],
                 failed |-> FALSE],
                "reflections", user_id, cutoff, fault, 1),
            "goals", user_id, cutoff, fault, 3),
        "interactions", user_id, cutoff, fault, 5)

\* The result dict of a read: four one-element lists, each holding the list
\* of the matches.  The matches come in the order of their similarity score,
\* which is not computed here: an inner list is kept as a map from the store
\* key of a match to its entry.
EmptyResult ==
    [documents |-> <<EmptyDict>>, metadatas |-> <<EmptyDict>>,
     ids |-> <<EmptyDict>>, distances |-> <<EmptyDict>>]
search_result(db, coll, user_id, n_results, ok) ==
    IF ~ok THEN EmptyResult
    ELSE LET results == read_collection(db, coll, user_id, n_results, TRUE) IN
         [documents |-> <<[id \in results |-> db.store[coll][id].page_content]>>,
          metadatas |-> <<[id \in results |-> db.store[coll][id].metadata]>>,
          ids |-> <<[id \in results |->
                      Get(db.store[coll][id].metadata, "id", PyStr(""))]>>,
          distances |-> <<[id \in results |-> "score"]>>]
read_reflections(db, user_id, n_results, ok) ==
    search_result(db, "reflections", user_id, n_results, ok)
read_user_state(db, user_id, n_results, ok) ==
    search_result(db, "states", user_id, n_results, ok)
read_goals_history(db, user_id, n_results, ok) ==
    search_result(db, "goals", user_id, n_results, ok)
read_interactions(db, user_id, n_results, ok) ==
    search_result(db, "interactions", user_id, n_results, ok)

-----------------------------------------------------------------------------
(* VectorUploadTool: the write gateway *)

upload_reflection_summary(db, user_id, summary, emotional_tone, key_themes, insights, ok) ==
    write_reflection(db, user_id, summary,
        [k \in {"emotional_tone", "key_themes", "insights", "type"} |->
            IF k = "emotional_tone" THEN PyStr(emotional_tone)
            ELSE IF k = "key_themes" THEN PyStr(json_dumps(key_themes))
            ELSE IF k = "insights" THEN PyStr(json_dumps(insights))
            ELSE PyStr("reflection_summary")],
        <<user_id, "reflection", db.clock>>, ok)

upload_goal_summary(db, user_id, goals, source_summary, ok) ==
    write_goal(db, user_id, <<"Goals created from reflection", source_summary>>,
        [k \in {"goal_count", "goals_json", "type"} |->
            IF k = "goal_count" THEN PyInt(Len(goals))
            ELSE IF k = "goals_json" THEN PyStr(json_dumps(goals))
            ELSE PyStr("goal_summary")],
        <<user_id, "goals", db.clock>>, ok)

upload_user_state(db, user_id, state_analysis, aggregated_data, ok) ==
    write_user_state(db, user_id, state_analysis,
        [k \in {"reflection_count", "goal_count", "interaction_count",
                "analysis_period", "type"} |->
            IF k = "reflection_count" THEN PyInt(aggregated_data.reflection_count)
            ELSE IF k = "goal_count" THEN PyInt(aggregated_data.goal_count)
            ELSE IF k = "interaction_count"
                 THEN PyInt(aggregated_data.interaction_count)
            ELSE IF k = "analysis_period" THEN PyStr(aggregated_data.period)
            ELSE PyStr("user_state")],
        ok)

upload_interaction_feedback(db, user_id, interaction_type, feedback_summary, metadata, ok) ==
    write_interaction(db, user_id, feedback_summary,
        Merge([k \in {"interaction_type", "type"} |->
                  IF k = "interaction_type" THEN PyStr(interaction_type)
                  ELSE PyStr("support_interaction")],
              metadata),
        <<user_id, "interaction", db.clock>>, ok)


-----------------------------------------------------------------------------
(* Agent 4: AssessmentAgent *)

EmptyUserData == [reflections |-> <<>>, goals |-> <<>>, feedback |-> <<>>]

_ensure_user_data(pd, user_id) ==
    IF ~Has(pd, user_id) THEN Put(pd, user_id, EmptyUserData) ELSE pd

\* a clear that leaves the accumulated items in place
_keep_user_data(pd, user_id) == pd

\* a clear that empties the accumulator of every user
_clear_every_user_data(pd, user_id) ==
    [u \in DOMAIN pd |-> EmptyUserData]

_clear_user_data(pd, user_id) ==
    IF Has(pd, user_id) THEN Put(pd, user_id, EmptyUserData) ELSE pd

\* a collector that drops a summary it already holds
collect_reflection_summary_dedup(pd, summary) ==
    LET pd1 == _ensure_user_data(pd, summary.user_id) IN
    IF \E i \in DOMAIN pd1[summary.user_id].reflections :
           pd1[summary.user_id].reflections[i] = summary
    THEN pd1
    ELSE Put(pd1, summary.user_id,
             [pd1[summary.user_id] EXCEPT !.reflections = Append(@, summary)])

collect_reflection_summary(pd, summary) ==
    LET pd1 == _ensure_user_data(pd, summary.user_id) IN
    Put(pd1, summary.user_id,
        [pd1[summary.user_id] EXCEPT !.reflections = Append(@, summary)])

collect_goal_summary(pd, task_payload) ==
    LET pd1 == _ensure_user_data(pd, task_payload.user_id) IN
    Put(pd1, task_payload.user_id,
        [pd1[task_payload.user_id] EXCEPT !.goals = Append(@, task_payload)])

\* a collector that takes the list in twice
collect_support_feedback_twice(pd, feedback_list) ==
    IF feedback_list = <<>> THEN pd
    ELSE LET user_id == feedback_list[1].user_id
             pd1 == _ensure_user_data(pd, user_id)
         IN Put(pd1, user_id,
                [pd1[user_id] EXCEPT
                    !.feedback = @ \o feedback_list \o feedback_list])

collect_support_feedback(pd, feedback_list) ==
    IF feedback_list = <<>> THEN pd
    ELSE LET user_id == feedback_list[1].user_id
             pd1 == _ensure_user_data(pd, user_id)
         IN Put(pd1, user_id,
                [pd1[user_id] EXCEPT !.feedback = @ \o feedback_list])

\* an upload whose document id is made from the item, not from a new uuid
UploadItemByContent(db, user_id, category, item, ok) ==
    add_document(db,
                 IF category = "feedback" THEN "interactions" ELSE category,
                 user_id, "item", EmptyDict, <<user_id, category, item>>, ok)

\* one upload of the loops at lines 631-666
UploadItem(db, user_id, category, item, ok) ==
    IF category = "reflections"
    THEN upload_reflection_summary(db, user_id, item.summary,
             item.emotional_tone, item.key_themes, item.insights, ok)
    ELSE IF category = "goals"
    THEN upload_goal_summary(db, user_id, item.goals, item.source_summary, ok)
    ELSE upload_interaction_feedback(db, user_id, "support_recommendation",
             <<item.reaction, item.notes>>,
             [k \in {"recommendation_id", "reaction"} |->
                 IF k = "recommendation_id" THEN PyStr(item.recommendation_id)
                 ELSE PyStr(item.reaction)],
             ok)

\* a for loop over one list; oks[i] is the outcome of the i-th store write of
\* the flush, acc = [db, count, log, i]; r is the result of one upload
UploadedCountingAttempts(acc, category, item, r) ==
    [db |-> r.db,
     count |-> acc.count + 1,
     log |-> Append(acc.log, [category |-> category, item |-> item,
                              success |-> r.success]),
     i |-> acc.i + 1]
Uploaded(acc, category, item, r) ==
    [db |-> r.db,
     count |-> acc.count + (IF r.success THEN 1 ELSE 0),
     log |-> Append(acc.log, [category |-> category, item |-> item,
                              success |-> r.success]),
     i |-> acc.i + 1]
RECURSIVE UploadLoop(_, _, _, _, _)
UploadLoop(user_id, category, items, oks, acc) ==
    IF items = <<>> THEN acc
    ELSE UploadLoop(user_id, category, Tail(items), oks,
             Uploaded(acc, category, Head(items),
                      UploadItem(acc.db, user_id, category, Head(items),
                                 oks[acc.i])))

RECURSIVE SumGoals(_)
SumGoals(payloads) ==
    IF payloads = <<>> THEN 0
    ELSE Len(Head(payloads).goals) + SumGoals(Tail(payloads))

\* the number of store writes a flush for user_id attempts
FlushWrites(pd, user_id) ==
    IF ~Has(pd, user_id) THEN 0
    ELSE Len(pd[user_id].reflections) + Len(pd[user_id].goals)
         + Len(pd[user_id].feedback) + 1

NoData == [status |-> "no_data", message |-> "No pending data to process"]

\* lines 668-676
aggregated_data_of(user_data) ==
    [reflection_count |-> Len(user_data.reflections),
     goal_count |-> SumGoals(user_data.goals),
     interaction_count |-> Len(user_data.feedback),
     period |-> "recent_session"]

\* a result that reports the state record written whatever the write did
flush_result_optimistic(pd, user_id, a1, a2, a3, state_result) ==
    [pd |-> _clear_user_data(pd, user_id),
     db |-> state_result.db,
     ret |-> [reflections_processed |-> a1.count,
              goals_processed |-> a2.count,
              feedback_processed |-> a3.count,
              state_updated |-> TRUE],
     log |-> Append(a3.log,
                [category |-> "states",
                 item |-> aggregated_data_of(pd[user_id]),
                 success |-> state_result.success])]

\* lines 679-689: clear the accumulator, build the result; a1, a2, a3 are the
\* three loops' accumulators and state_result the state upload's result
flush_result(pd, user_id, a1, a2, a3, state_result) ==
    [pd |-> _clear_user_data(pd, user_id),
     db |-> state_result.db,
     ret |-> [reflections_processed |-> a1.count,
              goals_processed |-> a2.count,
              feedback_processed |-> a3.count,
              state_updated |-> state_result.success],
     log |-> Append(a3.log,
                [category |-> "states",
                 item |-> aggregated_data_of(pd[user_id]),
                 success |-> state_result.success])]

\* lines 668-677: the state record
flush_state(pd, user_id, oks, a1, a2, a3) ==
    flush_result(pd, user_id, a1, a2, a3,
        upload_user_state(a3.db, user_id, "state analysis",
                          aggregated_data_of(pd[user_id]), oks[a3.i]))

\* lines 654-666: the feedback loop
flush_feedback(pd, user_id, oks, a1, a2) ==
    flush_state(pd, user_id, oks, a1, a2,
        UploadLoop(user_id, "feedback", pd[user_id].feedback, oks,
                   [a2 EXCEPT !.count = 0]))

\* lines 642-652: the goals loop
flush_goals(pd, user_id, oks, a1) ==
    flush_feedback(pd, user_id, oks, a1,
        UploadLoop(user_id, "goals", pd[user_id].goals, oks,
                   [a1 EXCEPT !.count = 0]))

\* returns the accumulators and the db afterwards, the result dict and the
\* log of the write attempts made
process_and_update_memory(pd, db, user_id, oks) ==
    IF ~Has(pd, user_id)
    THEN [pd |-> pd, db |-> db, ret |-> NoData, log |-> <<>>]
    ELSE flush_goals(pd, user_id, oks,
             UploadLoop(user_id, "reflections", pd[user_id].reflections, oks,
                        [db |-> db, count |-> 0, log |-> <<>>, i |-> 1]))

\* oks = <<reflections, goals, interactions, states>> read outcomes
statistics_of(db, user_id, reflections, goals, interactions, state) ==
    IF state = {} THEN Raise("IndexError")
    ELSE Return([user_id |-> user_id,
                 total_reflections |-> Cardinality(reflections),
                 total_goals |-> Cardinality(goals),
                 total_interactions |-> Cardinality(interactions),
                 current_state |->
                     db.store["states"][CHOOSE id \in state : TRUE].page_content])
get_user_statistics(db, user_id, oks) ==
    statistics_of(db, user_id,
        read_collection(db, "reflections", user_id, 100, oks[1]),
        read_collection(db, "goals", user_id, 100, oks[2]),
        read_collection(db, "interactions", user_id, 100, oks[3]),
        read_collection(db, "states", user_id, 1, oks[4]))

\* send_to_n8n: outcome is "unconfigured" (no webhook URL), "error" (a
\* RequestException: network failure, timeout, HTTP error status, a body
\* that response.json() cannot decode) or "success"
send_to_n8n(task_payload, outcome) ==
    IF outcome = "unconfigured"
    THEN [status |-> "error", message |-> "n8n webhook URL not configured"]
    ELSE IF outcome = "success"
    THEN [status |-> "success", data |-> "data",
          tasks_sent |-> Len(task_payload.goals)]
    ELSE [status |-> "error", message |-> "request failed", tasks_sent |-> 0]

N8nOutcomes == {"unconfigured", "error", "success"}

\* lines 341-369: the webhook requests of one send_to_n8n, each the list of
\* tasks posted; none when no webhook URL is configured
n8n_tasks(task_payload) ==
    [i \in DOMAIN task_payload.goals |->
        [summary |-> task_payload.goals[i].title,
         duration |-> task_payload.goals[i].duration_minutes]]
send_to_n8n_posts(task_payload, outcome) ==
    IF outcome = "unconfigured" THEN <<>>
    ELSE <<n8n_tasks(task_payload)>>

\* LLMManager.get_response.  A provider call either gives a content or
\* raises; backup_llm is None when GROQ_API_KEY is not set.  Returns the
\* provider calls made, in order, and what the method handed back.
Apology == "I'm having trouble processing your request. Please try again."
ProviderOk(content) == [ok |-> TRUE, content |-> content]
ProviderRaises == [ok |-> FALSE, content |-> ""]
\* a manager that calls the primary provider a second time before giving up
get_response_retrying(backup_llm, primary, backup) ==
    IF primary.ok
    THEN [attempts |-> <<"primary">>, ret |-> Return(primary.content)]
    ELSE [attempts |-> <<"primary", "primary">>, ret |-> Return(Apology)]

get_response(backup_llm, primary, backup) ==
    IF primary.ok
    THEN [attempts |-> <<"primary">>, ret |-> Return(primary.content)]
    ELSE IF backup_llm # None
    THEN [attempts |-> <<"primary", "backup">>,
          ret |-> IF backup.ok THEN Return(backup.content)
                  ELSE Return(Apology)]
    ELSE [attempts |-> <<"primary">>, ret |-> Return(Apology)]

-----------------------------------------------------------------------------
(* Operations.  Each action is one call of a public method (or one HTTP    *)
(* handler of main.py) run to completion; last records the call and what   *)
(* it returned or raised.  For the session operations the recorded         *)
(* argument also says whether the user had a session when the call began.  *)

db == [store |-> store, clock |-> clock]
SessionArg(input, active) == [input |-> input, active |-> active]
\* for continueSession and endSession, also the conversation lines of the
\* prompt given to the model
PromptArg(input, active, history) == [input |-> input, active |-> active, history |-> history]
ChatReply == "reply"

InitProgram ==
    /\ conversation_buffer = EmptyDict
    /\ pending_tasks = EmptyDict
    /\ feedback_buffer = EmptyDict
    /\ pending_data = EmptyDict
    /\ store = [c \in Collections |-> EmptyDict]
    /\ clock = 0
    /\ background_tasks = <<>>
    /\ calls = [t \in Threads |-> IdleCall]
    /\ last = Called("init", None, None, None)
    /\ steps = 0

InitState == InitProgram /\ caller_filters = None

Init == InitState /\ llm_response = None /\ serper_response = None

StartSession(u, m) ==
    /\ conversation_buffer' =
           start_reflection_session(conversation_buffer, u, m, ChatReply)
    /\ last' = Called("startSession", u,
                      SessionArg(m, Has(conversation_buffer, u)),
                      Return(ChatReply))
    /\ UNCHANGED <<pending_tasks, feedback_buffer, pending_data, store, clock,
                   background_tasks>>

ContinueSession(u, m) ==
    /\ conversation_buffer' =
           continue_reflection(conversation_buffer, u, m, ChatReply)
    /\ last' = Called("continueSession", u,
                      PromptArg(m, Has(conversation_buffer, u),
                                continue_history(conversation_buffer, u)),
                      Return(ChatReply))
    /\ UNCHANGED <<pending_tasks, feedback_buffer, pending_data, store, clock,
                   background_tasks>>

EndSession(u, response) ==
    LET r == end_session_and_summarize(conversation_buffer, u, response) IN
    /\ conversation_buffer' = r.buf
    /\ last' = Called("endSession", u,
                      PromptArg(response, Has(conversation_buffer, u),
                                full_conversation(conversation_buffer, u)),
                      r.ret)
    /\ UNCHANGED <<pending_tasks, feedback_buffer, pending_data, store, clock,
                   background_tasks>>

\* endSession on a thread, one action per access to the shared buffer: the
\* read, the model call with the summary built from it, the erase
EndSessionRead(t, u) ==
    /\ calls[t].pc \in {"idle", "done"}
    /\ calls' = [calls EXCEPT ![t] = end_session_read(conversation_buffer, u)]
    /\ last' = Called("endSession.read", u, t, calls'[t].ret)
    /\ UNCHANGED <<conversation_buffer, pending_tasks, feedback_buffer,
                   pending_data, store, clock, background_tasks>>

EndSessionSummarize(t, response) ==
    /\ calls[t].pc = "read"
    /\ calls' = [calls EXCEPT ![t] = end_session_summarize(calls[t], response)]
    /\ last' = Called("endSession.summarize", calls[t].user_id, t,
                      calls'[t].ret)
    /\ UNCHANGED <<conversation_buffer, pending_tasks, feedback_buffer,
                   pending_data, store, clock, background_tasks>>

EndSessionErase(t) ==
    /\ calls[t].pc = "summarized"
    /\ LET r == end_session_erase(conversation_buffer, calls[t]) IN
       /\ conversation_buffer' = r.buf
       /\ calls' = [calls EXCEPT ![t] = r.frame]
       /\ last' = Called("endSession.erase", calls[t].user_id, t, r.frame.ret)
    /\ UNCHANGED <<pending_tasks, feedback_buffer, pending_data, store, clock,
                   background_tasks>>

\* main.clear_user_session
ClearUserSession(u) ==
    /\ conversation_buffer' =
           IF Has(conversation_buffer, u) THEN Del(conversation_buffer, u)
           ELSE conversation_buffer
    /\ pending_tasks' =
           IF Has(pending_tasks, u) THEN Del(pending_tasks, u) ELSE pending_tasks
    /\ feedback_buffer' =
           IF Has(feedback_buffer, u) THEN Del(feedback_buffer, u)
           ELSE feedback_buffer
    /\ pending_data' =
           IF Has(pending_data, u) THEN Del(pending_data, u) ELSE pending_data
    /\ last' = Called("clear", u, None, Return("cleared"))
    /\ UNCHANGED <<store, clock, background_tasks>>

Plan(summary, response) ==
    LET r == process_reflection_summary(pending_tasks, summary, response) IN
    /\ pending_tasks' = r.tasks
    /\ last' = Called("plan", summary.user_id, response, Return(r.ret))
    /\ UNCHANGED <<conversation_buffer, feedback_buffer, pending_data, store,
                   clock, background_tasks>>

GetPending(u) ==
    /\ last' = Called("getPending", u, None,
                      Return(get_pending_tasks(pending_tasks, u)))
    /\ UNCHANGED <<conversation_buffer, pending_tasks, feedback_buffer,
                   pending_data, store, clock, background_tasks>>

SyncExternal(task_payload, outcome) ==
    /\ last' = Called("syncExternal", task_payload.user_id,
                      [task_payload |-> task_payload, outcome |-> outcome,
                       requests |-> send_to_n8n_posts(task_payload, outcome)],
                      Return(send_to_n8n(task_payload, outcome)))
    /\ UNCHANGED <<conversation_buffer, pending_tasks, feedback_buffer,
                   pending_data, store, clock, background_tasks>>

\* LLMManager.invoke: one call of get_response
Invoke(backup_llm, primary, backup) ==
    LET r == get_response(backup_llm, primary, backup) IN
    /\ last' = Called("invoke", None,
                      [backup_llm |-> backup_llm, primary |-> primary,
                       backup |-> backup, attempts |-> r.attempts],
                      r.ret)
    /\ UNCHANGED <<conversation_buffer, pending_tasks, feedback_buffer,
                   pending_data, store, clock, background_tasks>>

\* main.resync_goals: 404 when nothing is cached (get_pending_tasks gave
\* None), else the cached payload is sent again
ResyncGoals(u, outcome) ==
    /\ last' = Called("resyncGoals", u, outcome,
           IF ~Has(pending_tasks, u)
           THEN [status_code |-> 404,
                 detail |-> "No pending goals found for this user"]
           ELSE [status_code |-> 200, status |-> "success",
                 sync_result |->
                     send_to_n8n(get_pending_tasks(pending_tasks, u), outcome)])
    /\ UNCHANGED <<conversation_buffer, pending_tasks, feedback_buffer,
                   pending_data, store, clock, background_tasks>>

Search(u, search_results, query_terms, filters) ==
    /\ last' = Called("search", u,
                      [search_results |-> search_results,
                       query_terms |-> query_terms, filters |-> filters],
                      Return(search_communities(search_results, query_terms,
                                                filters)))
    /\ UNCHANGED <<conversation_buffer, pending_tasks, feedback_buffer,
                   pending_data, store, clock, background_tasks>>

RecordFeedback(feedback) ==
    /\ feedback_buffer' = record_feedback(feedback_buffer, feedback)
    /\ last' = Called("recordFeedback", feedback.user_id, feedback, Return(None))
    /\ UNCHANGED <<conversation_buffer, pending_tasks, pending_data, store,
                   clock, background_tasks>>

DrainFeedback(u) ==
    LET r == get_feedback_for_assessment(feedback_buffer, u) IN
    /\ feedback_buffer' = r.fb
    /\ last' = Called("drainFeedback", u, None, Return(r.ret))
    /\ UNCHANGED <<conversation_buffer, pending_tasks, pending_data, store,
                   clock, background_tasks>>

\* a collector that also files its item in the store itself
CollectReflectionWriting(summary) ==
    LET w == write_reflection(db, summary.user_id, summary.summary, EmptyDict,
                              <<summary.user_id, "reflection", clock>>, TRUE)
    IN /\ pending_data' = collect_reflection_summary(pending_data, summary)
       /\ store' = w.db.store
       /\ clock' = w.db.clock
       /\ last' = Called("collectReflection", summary.user_id, summary,
                      Return(None))
       /\ UNCHANGED <<conversation_buffer, pending_tasks, feedback_buffer,
                      background_tasks>>

CollectReflection(summary) ==
    /\ pending_data' = collect_reflection_summary(pending_data, summary)
    /\ last' = Called("collectReflection", summary.user_id, summary,
                      Return(None))
    /\ UNCHANGED <<conversation_buffer, pending_tasks, feedback_buffer, store,
                   clock, background_tasks>>

CollectGoals(task_payload) ==
    /\ pending_data' = collect_goal_summary(pending_data, task_payload)
    /\ last' = Called("collectGoals", task_payload.user_id, task_payload,
                      Return(None))
    /\ UNCHANGED <<conversation_buffer, pending_tasks, feedback_buffer, store,
                   clock, background_tasks>>

\* u is the caller's user; the code takes the user from the first item
CollectFeedback(u, feedback_list) ==
    /\ pending_data' = collect_support_feedback(pending_data, feedback_list)
    /\ last' = Called("collectFeedback", u, feedback_list, Return(None))
    /\ UNCHANGED <<conversation_buffer, pending_tasks, feedback_buffer, store,
                   clock, background_tasks>>

\* oks: the outcome of each store write the flush attempts, in order; the
\* recorded argument is the log of the write attempts made
Flush(u, oks) ==
    LET r == process_and_update_memory(pending_data, db, u, oks) IN
    /\ pending_data' = r.pd
    /\ store' = r.db.store
    /\ clock' = r.db.clock
    /\ last' = Called("flush", u, r.log, Return(r.ret))
    /\ UNCHANGED <<conversation_buffer, pending_tasks, feedback_buffer,
                   background_tasks>>

\* A write operation of ChromaDBManager called with a document id of the
\* form the write gateway builds: the user id, a kind, a unique value.  A
\* fault is an exception raised inside the try block before the collection
\* has taken the document.
DocumentId(coll, u) == <<u, coll, clock>>
StoreWrite(coll, u, metadata, ok) ==
    LET r == IF coll = "reflections"
             THEN write_reflection(db, u, "summary", metadata,
                                   DocumentId(coll, u), ok)
             ELSE IF coll = "goals"
             THEN write_goal(db, u, "summary", metadata,
                             DocumentId(coll, u), ok)
             ELSE IF coll = "interactions"
             THEN write_interaction(db, u, "summary", metadata,
                                    DocumentId(coll, u), ok)
             ELSE write_user_state(db, u, "summary", metadata, ok) IN
    /\ store' = r.db.store
    /\ clock' = r.db.clock
    /\ last' = Called("storeWrite", u,
                      [coll |-> coll, metadata |-> metadata, ok |-> ok,
                       document_id |->
                           IF coll = "states" THEN <<u, "state", clock>>
                           ELSE DocumentId(coll, u)],
                      Return(r.success))
    /\ UNCHANGED <<conversation_buffer, pending_tasks, feedback_buffer,
                   pending_data, background_tasks>>

\* the maintenance delete for a user
DeleteOldData(u, cutoff, fault) ==
    LET r == delete_old_data(db, u, cutoff, fault) IN
    /\ store' = r.db.store
    /\ last' = Called("deleteOldData", u, [cutoff |-> cutoff, fault |-> fault],
                      Return(r.counts))
    /\ UNCHANGED <<conversation_buffer, pending_tasks, feedback_buffer,
                   pending_data, clock, background_tasks>>

\* a read operation of ChromaDBManager with its default n_results
StoreRead(coll, u, ok) ==
    /\ last' = Called("storeRead", u, [coll |-> coll, ok |-> ok],
                      Return(IF coll = "reflections"
                             THEN read_reflections(db, u, 5, ok)
                             ELSE IF coll = "states"
                             THEN read_user_state(db, u, 1, ok)
                             ELSE IF coll = "goals"
                             THEN read_goals_history(db, u, 10, ok)
                             ELSE read_interactions(db, u, 5, ok)))
    /\ UNCHANGED <<conversation_buffer, pending_tasks, feedback_buffer,
                   pending_data, store, clock, background_tasks>>

GetStatistics(u, oks) ==
    /\ last' = Called("getStatistics", u, oks, get_user_statistics(db, u, oks))
    /\ UNCHANGED <<conversation_buffer, pending_tasks, feedback_buffer,
                   pending_data, store, clock, background_tasks>>

-----------------------------------------------------------------------------
(* HTTP handlers of main.py that chain several agent calls *)

\* end_reflection: ValueError (pydantic's ValidationError is one) is reported
\* as 400, any other exception as 500; the flush is queued, not run
collect_feedback_if_any(pd, feedback) ==
    IF feedback # <<>> THEN collect_support_feedback(pd, feedback) ELSE pd
collect_after_session(pd, summary, task_payload, feedback) ==
    collect_feedback_if_any(
        collect_goal_summary(collect_reflection_summary(pd, summary),
                             task_payload),
        feedback)

\* lines 192-226: p is the plan's result, f the drained feedback
EndReflectionOk(u, arg, buf, summary, p, f, outcome) ==
    /\ conversation_buffer' = buf
    /\ pending_tasks' = p.tasks
    /\ feedback_buffer' = f.fb
    /\ pending_data' = collect_after_session(pending_data, summary, p.ret, f.ret)
    /\ background_tasks' = Append(background_tasks, u)
    /\ last' = Called("end_reflection", u, arg,
           [status_code |-> 200, summary |-> summary,
            goals |-> p.ret.goals,
            calendar_sync |-> send_to_n8n(p.ret, outcome),
            assessment_results |-> "processing_in_background"])
    /\ UNCHANGED <<store, clock>>

\* e is what end_session_and_summarize gave
EndReflectionAfter(u, arg, e, goals_response, outcome) ==
    IF e.ret.exc # None
    THEN /\ conversation_buffer' = e.buf
         /\ last' = Called("end_reflection", u, arg,
                [status_code |->
                     IF e.ret.exc \in {"ValueError", "ValidationError"}
                     THEN 400 ELSE 500,
                 detail |-> e.ret.exc])
         /\ UNCHANGED <<pending_tasks, feedback_buffer, pending_data, store,
                        clock, background_tasks>>
    ELSE EndReflectionOk(u, arg, e.buf, e.ret.value,
             process_reflection_summary(pending_tasks, e.ret.value,
                                        goals_response),
             get_feedback_for_assessment(feedback_buffer, u), outcome)

EndReflection(u, response, goals_response, outcome) ==
    EndReflectionAfter(u, SessionArg(response, Has(conversation_buffer, u)),
        end_session_and_summarize(conversation_buffer, u, response),
        goals_response, outcome)

\* The two session-end handlers statement by statement.  A handler in
\* progress is a frame: the path it runs, the statement it is at, the
\* statements it has run, and its local variables.
EndReflectionProgram ==
    <<"summarize", "collect_reflection", "plan", "sync", "collect_goals",
      "collect_feedback", "queue_flush">>
ReflectionPageProgram ==
    <<"summarize", "collect_reflection", "plan", "collect_goals", "flush",
      "sync">>
Program(path) ==
    IF path = "http" THEN EndReflectionProgram ELSE ReflectionPageProgram
PipelineFrame(pc, path, at, user_id, trace, summary, task_payload, calendar_sync) == [pc |-> pc, path |-> path, at |-> at, user_id |-> user_id, trace |-> trace, summary |-> summary, task_payload |-> task_payload, calendar_sync |-> calendar_sync]
\* the statement the handler on thread t runs next
NextStmt(t) ==
    IF calls[t].pc = "pipeline" THEN Program(calls[t].path)[calls[t].at]
    ELSE "none"
\* the frame once its statement has run
Advanced(frame) ==
    [frame EXCEPT !.trace = Append(@, Program(frame.path)[frame.at]),
                  !.at = @ + 1,
                  !.pc = IF frame.at = Len(Program(frame.path))
                         THEN "done" ELSE "pipeline"]
\* the except branches: the HTTP handler raises HTTPException, the page
\* shows the error; either way the handler is over
Failed(frame, exc) == [frame EXCEPT !.pc = "failed", !.calendar_sync = exc]

\* summary = reflections_agent.end_session_and_summarize(user_id)
PipelineSummarize(t, u, path, response) ==
    /\ calls[t].pc \in {"idle", "done", "failed"}
    /\ LET e == end_session_and_summarize(conversation_buffer, u, response)
           frame == PipelineFrame("pipeline", path, 1, u, <<>>, None, None,
                                  None)
       IN /\ conversation_buffer' = e.buf
          /\ calls' = [calls EXCEPT ![t] =
                 IF e.ret.exc # None THEN Failed(frame, e.ret.exc)
                 ELSE Advanced([frame EXCEPT !.summary = e.ret.value])]
          /\ last' = Called("summarize", u, path, e.ret)
    /\ UNCHANGED <<pending_tasks, feedback_buffer, pending_data, store, clock,
                   background_tasks>>

\* assessment_agent.collect_reflection_summary(summary)
PipelineCollectReflection(t) ==
    /\ NextStmt(t) = "collect_reflection"
    /\ pending_data' =
           collect_reflection_summary(pending_data, calls[t].summary)
    /\ calls' = [calls EXCEPT ![t] = Advanced(calls[t])]
    /\ last' = Called("collect_reflection", calls[t].user_id, calls[t].path,
                      Return(None))
    /\ UNCHANGED <<conversation_buffer, pending_tasks, feedback_buffer, store,
                   clock, background_tasks>>

\* task_payload = goal_planner_agent.process_reflection_summary(summary)
PipelinePlan(t, goals_response) ==
    /\ NextStmt(t) = "plan"
    /\ LET r == process_reflection_summary(pending_tasks, calls[t].summary,
                                           goals_response)
       IN /\ pending_tasks' = r.tasks
          /\ calls' = [calls EXCEPT ![t] =
                 Advanced([calls[t] EXCEPT !.task_payload = r.ret])]
          /\ last' = Called("plan", calls[t].user_id, goals_response,
                            Return(r.ret))
    /\ UNCHANGED <<conversation_buffer, feedback_buffer, pending_data, store,
                   clock, background_tasks>>

\* goal_planner_agent.send_to_n8n(task_payload)
PipelineSync(t, outcome) ==
    /\ NextStmt(t) = "sync"
    /\ LET r == send_to_n8n(calls[t].task_payload, outcome)
       IN /\ calls' = [calls EXCEPT ![t] =
                 Advanced([calls[t] EXCEPT !.calendar_sync = r.status])]
          /\ last' = Called("sync", calls[t].user_id, calls[t].path,
                            Return(r.status))
    /\ UNCHANGED <<conversation_buffer, pending_tasks, feedback_buffer,
                   pending_data, store, clock, background_tasks>>

\* assessment_agent.collect_goal_summary(task_payload)
PipelineCollectGoals(t) ==
    /\ NextStmt(t) = "collect_goals"
    /\ pending_data' =
           collect_goal_summary(pending_data, calls[t].task_payload)
    /\ calls' = [calls EXCEPT ![t] = Advanced(calls[t])]
    /\ last' = Called("collect_goals", calls[t].user_id, calls[t].path,
                      Return(None))
    /\ UNCHANGED <<conversation_buffer, pending_tasks, feedback_buffer, store,
                   clock, background_tasks>>

\* main.py step 6: drain the feedback buffer and collect what it held
PipelineCollectFeedback(t) ==
    /\ NextStmt(t) = "collect_feedback"
    /\ LET f == get_feedback_for_assessment(feedback_buffer,
                                            calls[t].user_id)
       IN /\ feedback_buffer' = f.fb
          /\ pending_data' = collect_feedback_if_any(pending_data, f.ret)
    /\ calls' = [calls EXCEPT ![t] = Advanced(calls[t])]
    /\ last' = Called("collect_feedback", calls[t].user_id, calls[t].path,
                      Return(None))
    /\ UNCHANGED <<conversation_buffer, pending_tasks, store, clock,
                   background_tasks>>

\* main.py step 7: background_tasks.add_task(process_and_update_memory)
PipelineQueueFlush(t) ==
    /\ NextStmt(t) = "queue_flush"
    /\ background_tasks' = Append(background_tasks, calls[t].user_id)
    /\ calls' = [calls EXCEPT ![t] = Advanced(calls[t])]
    /\ last' = Called("queue_flush", calls[t].user_id, calls[t].path,
                      Return(None))
    /\ UNCHANGED <<conversation_buffer, pending_tasks, feedback_buffer,
                   pending_data, store, clock>>

\* Reflection.py step 5: assessment_agent.process_and_update_memory(USER_ID)
PipelineFlush(t, oks) ==
    /\ NextStmt(t) = "flush"
    /\ LET r == process_and_update_memory(pending_data, db, calls[t].user_id,
                                          oks)
       IN /\ pending_data' = r.pd
          /\ store' = r.db.store
          /\ clock' = r.db.clock
          /\ last' = Called("flush", calls[t].user_id, r.log, Return(r.ret))
    /\ calls' = [calls EXCEPT ![t] = Advanced(calls[t])]
    /\ UNCHANGED <<conversation_buffer, pending_tasks, feedback_buffer,
                   background_tasks>>

\* pages/Support.py submit_feedback: record, drain, collect, flush at once
page_feedback_drained(fb, feedback) ==
    get_feedback_for_assessment(record_feedback(fb, feedback), feedback.user_id)
page_feedback_collected(pd, fb, feedback) ==
    collect_feedback_if_any(pd, page_feedback_drained(fb, feedback).ret)
PageFeedbackFlushed(u, fb, r) ==
    /\ feedback_buffer' = fb
    /\ pending_data' = r.pd
    /\ store' = r.db.store
    /\ clock' = r.db.clock
    /\ last' = Called("submitFeedbackPage", u, r.log, Return(r.ret))
    /\ UNCHANGED <<conversation_buffer, pending_tasks, background_tasks>>
SubmitFeedbackPage(feedback, oks) ==
    PageFeedbackFlushed(feedback.user_id,
        page_feedback_drained(feedback_buffer, feedback).fb,
        process_and_update_memory(
            page_feedback_collected(pending_data, feedback_buffer, feedback),
            db, feedback.user_id, oks))

\* ChromaDBManager._sanitize_metadata applied to a metadata map
Sanitize(metadata) ==
    /\ last' = Called("sanitize", None, metadata,
                      Return(_sanitize_metadata(metadata)))
    /\ UNCHANGED <<conversation_buffer, pending_tasks, feedback_buffer,
                   pending_data, store, clock, background_tasks>>

\* SupportAgent._classify_community_type applied to a text
Classify(text) ==
    /\ last' = Called("classify", None, text,
                      Return(_classify_community_type(text)))
    /\ UNCHANGED <<conversation_buffer, pending_tasks, feedback_buffer,
                   pending_data, store, clock, background_tasks>>

\* a queued task that is dropped without running the flush
BackgroundFlushDropping(oks) ==
    /\ background_tasks # <<>>
    /\ last' = Called("background_flush", Head(background_tasks), <<>>,
                      Return(NoData))
    /\ background_tasks' = Tail(background_tasks)
    /\ UNCHANGED <<conversation_buffer, pending_tasks, feedback_buffer,
                   pending_data, store, clock>>

\* the task queued by background_tasks.add_task, run after the response
BackgroundFlush(oks) ==
    /\ background_tasks # <<>>
    /\ LET u == Head(background_tasks)
           r == process_and_update_memory(pending_data, db, u, oks)
       IN /\ pending_data' = r.pd
          /\ store' = r.db.store
          /\ clock' = r.db.clock
          /\ last' = Called("background_flush", u, r.log, Return(r.ret))
    /\ background_tasks' = Tail(background_tasks)
    /\ UNCHANGED <<conversation_buffer, pending_tasks, feedback_buffer>>

-----------------------------------------------------------------------------
(* Inputs of the explored runs *)

ReplyK == <<Run("K", 40)>>      \* the expected JSON object
ReplyText == <<Run("x", 5)>>    \* plain text
ReplyScalar == <<Run("v", 1)>>  \* a JSON scalar, no braces
ReplyW == <<Run("W", 40)>>      \* a JSON object with wrong-typed fields
ReplyE == <<Run("E", 2)>>       \* the JSON object {}
SummaryReplies == {ReplyK, ReplyText, ReplyScalar, ReplyW, ReplyE}
ReplyGoals == <<Run("[", 1), Run("G", 30), Run("]", 1)>>
GoalReplies == {ReplyGoals, ReplyText}
ReplyTwoGoals ==
    <<Run("[", 1), Run("G", 30), Run(",", 1), Run("H", 30), Run("]", 1)>>
PlanReplies == {ReplyGoals, ReplyTwoGoals, ReplyText}

\* every text of at most MaxReply runs
Texts(runs) == UNION {[1..k -> runs] : k \in 0..MaxReply}
SummaryRuns ==
    {Run("{", 1), Run("}", 1), Run("v", 1), Run("x", 5), Run("x", 301),
     Run("K", 40), Run("W", 40), Run("E", 2)}
SummaryUniverse == Texts(SummaryRuns)
GoalRuns ==
    {Run("[", 1), Run("]", 1), Run(",", 1), Run("v", 1), Run("x", 5),
     Run("G", 30), Run("H", 30), Run("B", 30)}
\* texts, the same between brackets, and those with prose around them
GoalUniverse ==
    Texts(GoalRuns)
    \cup {<<Run("[", 1)>> \o t \o <<Run("]", 1)>> : t \in Texts(GoalRuns)}
    \cup {<<Run("x", 5), Run("[", 1)>> \o t \o <<Run("]", 1), Run("x", 5)>> :
             t \in Texts(GoalRuns)}

\* the summary a session of user u ends with under a reply
SummaryFor(u, response) ==
    end_session_and_summarize(
        start_reflection_session(EmptyDict, u, "m1", ChatReply), u, response
    ).ret.value
SummaryArgs(u) == {SummaryFor(u, ReplyK)}
PayloadArgs(u) ==
    {process_reflection_summary(EmptyDict, SummaryFor(u, ReplyK), ReplyText).ret}
\* the payloads plan returns under the planning replies
SyncPayloads(u) ==
    {process_reflection_summary(EmptyDict, SummaryFor(u, ReplyK), response).ret :
        response \in PlanReplies}
FeedbackArgs(u) == {UserFeedback(u, "url1", "accepted", None)}
\* the feedback a user can give on two recommendations
FeedbackItems(u) ==
    {UserFeedback(u, "url1", "accepted", "Feedback on: one"),
     UserFeedback(u, "url2", "rejected", "Feedback on: two")}
FeedbackLists(u) ==
    {<<>>} \cup {<<f>> : f \in FeedbackArgs(u)}
    \cup {<<f1, f2>> : f1 \in FeedbackArgs(u), f2 \in FeedbackArgs(u)}
WriteOutcomes(n) == [1..n -> BOOLEAN]
ReadOutcomes == {[i \in 1..4 |-> TRUE], [i \in 1..4 |-> FALSE]}

SearchResultLists ==
    {<<>>,
     <<SerperResult(SearchText({"recovery", "forum", "support"}, 30),
                    SearchText({"community", "peer", "help"}, 300),
                    "url1", 1),
       SerperResult(SearchText({"shop", "recovery", "support"}, 20),
                    SearchText({"buy", "group"}, 80), "url2", 2),
       SerperResult(SearchText({"reddit", "recovery"}, 20),
                    SearchText({"support", "group", "online", "help"}, 120),
                    "url3", 3)>>}
QueryTerms == {{"recovery"}, {"sobriety"}}

\* Candidates of the search client, before their position in the list:
\* seven keywords with "recovery" in the title; twelve keywords with
\* "sobriety" in the title; a single keyword; a shop; nine keywords and no
\* query term in the title; six keywords and both query terms in the title.
Candidate(title, snippet) == [title |-> title, snippet |-> snippet]
CandidateMid ==
    Candidate(SearchText({"reddit", "recovery", "forum"}, 30),
              SearchText({"support", "community", "help", "peer"}, 300))
CandidateStrong ==
    Candidate(SearchText({"discord", "support", "group", "online", "addiction",
                          "sobriety"}, 60),
              SearchText({"community", "help", "peer", "therapy", "counseling",
                          "anonymous", "meeting"}, 200))
CandidateSingle ==
    Candidate(SearchText({"recovery", "sobriety"}, 20), SearchText({}, 0))
CandidateShop ==
    Candidate(SearchText({"shop", "support", "group", "therapy"}, 20),
              SearchText({"buy", "forum"}, 80))
CandidateNine ==
    Candidate(SearchText({"facebook"}, 10),
              SearchText({"support", "community", "group", "forum", "help",
                          "peer", "online", "therapy", "meeting"}, 250))
CandidateSix ==
    Candidate(SearchText({"recovery", "sobriety", "meetup", "support",
                          "group"}, 40),
              SearchText({"help", "peer", "online"}, 251))
Survivors == {CandidateMid, CandidateStrong, CandidateNine, CandidateSix}
Candidates == Survivors \cup {CandidateSingle, CandidateShop}
\* SerperTool._parse_results: position is the 1-based index in the list
parse_results(organic) ==
    [i \in DOMAIN organic |->
        SerperResult(organic[i].title, organic[i].snippet, <<"link", i>>, i)]
ResultLists ==
    {parse_results(organic) :
        organic \in UNION {[1..k -> Candidates] : k \in 0..MaxMixed}
                    \cup [1..MaxResults -> Survivors]}
\* The query "social media addiction support" and the two result titles
\* "r/nosurf - quit social media" and "Buy followers fast!!": of the words the
\* ranking looks for, the first title holds the query terms "social" and
\* "media", the second holds "buy".  The client fills the snippets, which
\* default to the empty string.
ScenarioQuery == {"social", "media", "addiction", "support"}
ScenarioTitleFirst == SearchText({"social", "media"}, 28)
ScenarioTitleSecond == SearchText({"buy"}, 20)
ScenarioSnippetWords ==
    {"reddit", "support", "community", "addiction", "discord", "sale"}
ScenarioSnippets == {SearchText(has, 20 * Cardinality(has)) : has \in SUBSET ScenarioSnippetWords}
ScenarioSecondSnippets == {SearchText(has, 20 * Cardinality(has)) : has \in SUBSET {"support", "group"}}
ScenarioResultLists ==
    {parse_results(<<Candidate(ScenarioTitleFirst, first),
                     Candidate(ScenarioTitleSecond, second)>>) :
        first \in ScenarioSnippets, second \in ScenarioSecondSnippets}
\* metadata values of every type the sanitizer tells apart: None, a string,
\* a number, a list of three strings, a tuple, a set, a map with a None, a
\* map holding a map with a None, the empty map, the empty list
SanitizeValues ==
    <<PyNone, PyStr("x"), PyInt(1), PyList(<<"p", "q", "r">>),
      PyTuple(<<"p", "q">>), PySet(<<"p">>),
      PyDict([k \in {"n", "s"} |-> IF k = "n" THEN PyNone ELSE PyStr("x")]),
      PyDict([k \in {"inner"} |-> PyDict([ik \in {"n"} |-> PyNone])]),
      PyDict(EmptyDict), PyList(<<>>)>>
\* which value each key of a metadata map holds
SanitizeChoices ==
    UNION {[keys -> DOMAIN SanitizeValues] : keys \in SUBSET {"k1", "k2"}}
SanitizeMap(choice) == [k \in DOMAIN choice |-> SanitizeValues[choice[k]]]
\* outcomes of the n writes of a flush: all succeed, the state write alone
\* faults, all fault
FlushOutcomes(n) ==
    {[i \in 1..n |-> TRUE], [i \in 1..n |-> i < n], [i \in 1..n |-> FALSE]}
\* metadata of a direct write: none, a type, a user_id key of its own
StoreMetadata ==
    {EmptyDict,
     [k \in {"type"} |-> PyStr("note")],
     [k \in {"user_id"} |-> PyStr("u2")]}
\* the words the classifier looks for, and one it does not; a text is the
\* set of those that occur in it
ClassifierWords ==
    {"reddit", "discord", "forum", "facebook", "meetup", "12", "step", "help"}
ClassifierTexts == SUBSET ClassifierWords
\* no filters, the Support page's filters, a caller's exclusion list
FilterArgs ==
    {EmptyDict,
     [k \in {"community_types"} |-> {"reddit"}],
     [k \in {"excluded_keywords"} |-> {"forum", "casino"}]}

-----------------------------------------------------------------------------
(* How a run is bounded *)

\* one more operation of a run of at most n operations
Step(n) ==
    steps < n /\ steps' = steps + 1
    /\ UNCHANGED <<calls, llm_response, serper_response, caller_filters>>
\* a step of a call in progress on a thread
Tick(n) ==
    steps < n /\ steps' = steps + 1
    /\ UNCHANGED <<llm_response, serper_response, caller_filters>>
\* an operation of a run whose model reply was scripted at the start
Scripted ==
    UNCHANGED <<steps, calls, llm_response, serper_response, caller_filters>>

-----------------------------------------------------------------------------
(* Spec: every operation of the system *)

Next ==
    \/ \E u \in Users : StartSession(u, "m1") /\ Step(MaxSystemSteps)
    \/ \E u \in Users : ContinueSession(u, "m2") /\ Step(MaxSystemSteps)
    \/ \E u \in Users : \E response \in {ReplyK, ReplyScalar} :
           EndSession(u, response) /\ Step(MaxSystemSteps)
    \/ \E u \in Users : ClearUserSession(u) /\ Step(MaxSystemSteps)
    \/ \E u \in Users : \E summary \in SummaryArgs(u) :
       \E response \in GoalReplies :
           Plan(summary, response) /\ Step(MaxSystemSteps)
    \/ \E u \in Users : GetPending(u) /\ Step(MaxSystemSteps)
    \/ \E u \in Users : \E task_payload \in PayloadArgs(u) :
       \E outcome \in N8nOutcomes :
           SyncExternal(task_payload, outcome) /\ Step(MaxSystemSteps)
    \/ \E u \in Users : \E search_results \in SearchResultLists :
       \E query_terms \in QueryTerms :
           Search(u, search_results, query_terms, EmptyDict)
           /\ Step(MaxSystemSteps)
    \/ \E u \in Users : \E feedback \in FeedbackArgs(u) :
           RecordFeedback(feedback) /\ Step(MaxSystemSteps)
    \/ \E u \in Users : DrainFeedback(u) /\ Step(MaxSystemSteps)
    \/ \E u \in Users : \E summary \in SummaryArgs(u) :
           CollectReflection(summary) /\ Step(MaxSystemSteps)
    \/ \E u \in Users : \E task_payload \in PayloadArgs(u) :
           CollectGoals(task_payload) /\ Step(MaxSystemSteps)
    \/ \E u \in Users : \E feedback_list \in FeedbackLists(u) :
           CollectFeedback(u, feedback_list) /\ Step(MaxSystemSteps)
    \/ \E u \in Users :
           \E oks \in WriteOutcomes(FlushWrites(pending_data, u)) :
               Flush(u, oks) /\ Step(MaxSystemSteps)
    \/ \E u \in Users : \E oks \in ReadOutcomes :
           GetStatistics(u, oks) /\ Step(MaxSystemSteps)
    \/ \E u \in Users : \E response \in {ReplyK, ReplyScalar} :
           EndReflection(u, response, ReplyText, "success")
           /\ Step(MaxSystemSteps)
    \/ /\ background_tasks # <<>>
       /\ \E oks \in WriteOutcomes(
                        FlushWrites(pending_data, Head(background_tasks))) :
              BackgroundFlush(oks) /\ Step(MaxSystemSteps)

Spec == Init /\ [][Next]_vars

-----------------------------------------------------------------------------
(* SpecAssess: the collectors and flush of the AssessmentAgent *)

NextAssess ==
    \/ \E u \in Users : \E summary \in SummaryArgs(u) :
           CollectReflection(summary) /\ Step(MaxSteps)
    \/ \E u \in Users : \E task_payload \in PayloadArgs(u) :
           CollectGoals(task_payload) /\ Step(MaxSteps)
    \/ \E u \in Users : \E feedback_list \in FeedbackLists(u) :
           CollectFeedback(u, feedback_list) /\ Step(MaxSteps)
    \/ \E u \in Users :
           \E oks \in WriteOutcomes(FlushWrites(pending_data, u)) :
               Flush(u, oks) /\ Step(MaxSteps)

SpecAssess == Init /\ [][NextAssess]_vars

-----------------------------------------------------------------------------
(* SpecSession: the session operations of the ReflectionsAgent *)

NextSession ==
    \/ \E u \in Users : \E m \in Msgs :
           StartSession(u, m) /\ Step(MaxSessionSteps)
    \/ \E u \in Users : \E m \in Msgs :
           ContinueSession(u, m) /\ Step(MaxSessionSteps)
    \/ \E u \in Users : \E response \in SummaryReplies :
           EndSession(u, response) /\ Step(MaxSessionSteps)
    \/ \E u \in Users : ClearUserSession(u) /\ Step(MaxSessionSteps)

SpecSession == Init /\ [][NextSession]_vars

-----------------------------------------------------------------------------
(* SpecSummarize: endSession under every scripted summarization reply *)

InitSummarize ==
    InitState /\ llm_response \in SummaryUniverse /\ serper_response = None

NextSummarize ==
    \/ \E u \in Users : StartSession(u, "m1") /\ Scripted
    \/ \E u \in Users : EndSession(u, llm_response) /\ Scripted

SpecSummarize == InitSummarize /\ [][NextSummarize]_vars

-----------------------------------------------------------------------------
(* SpecPlan: plan under every scripted goal-planning reply *)

InitPlan ==
    InitState /\ llm_response \in GoalUniverse /\ serper_response = None

NextPlan ==
    \/ \E u \in Users : \E summary \in SummaryArgs(u) :
           Plan(summary, llm_response) /\ Scripted
    \/ \E u \in Users : GetPending(u) /\ Scripted

SpecPlan == InitPlan /\ [][NextPlan]_vars

-----------------------------------------------------------------------------
(* SpecGoals: the goal cache of the GoalPlannerAgent *)

NextGoals ==
    \/ \E u \in Users : \E summary \in SummaryArgs(u) :
       \E response \in PlanReplies :
           Plan(summary, response) /\ Step(MaxGoalSteps)
    \/ \E u \in Users : GetPending(u) /\ Step(MaxGoalSteps)
    \/ \E u \in Users : \E task_payload \in SyncPayloads(u) :
       \E outcome \in N8nOutcomes :
           SyncExternal(task_payload, outcome) /\ Step(MaxGoalSteps)
    \/ \E u \in Users : \E outcome \in N8nOutcomes :
           ResyncGoals(u, outcome) /\ Step(MaxGoalSteps)

SpecGoals == Init /\ [][NextGoals]_vars

-----------------------------------------------------------------------------
(* SpecFeedback: the feedback buffer of the SupportAgent *)

NextFeedback ==
    \/ \E u \in Users : \E feedback \in FeedbackItems(u) :
           RecordFeedback(feedback) /\ Step(MaxFeedbackSteps)
    \/ \E u \in Users : DrainFeedback(u) /\ Step(MaxFeedbackSteps)

SpecFeedback == Init /\ [][NextFeedback]_vars

-----------------------------------------------------------------------------
(* SpecIntake: the way of a feedback item from the buffer to the store *)

NextIntake ==
    \/ \E u \in Users : StartSession(u, "m1") /\ Step(MaxIntakeSteps)
    \/ \E u \in Users : \E feedback \in FeedbackItems(u) :
           RecordFeedback(feedback) /\ Step(MaxIntakeSteps)
    \/ \E u \in Users : \E feedback \in FeedbackItems(u) :
       \E oks \in WriteOutcomes(FlushWrites(
                  page_feedback_collected(pending_data, feedback_buffer,
                                          feedback), u)) :
           SubmitFeedbackPage(feedback, oks) /\ Step(MaxIntakeSteps)
    \/ \E u \in Users :
           EndReflection(u, ReplyK, ReplyText, "success")
           /\ Step(MaxIntakeSteps)
    \/ /\ background_tasks # <<>>
       /\ \E oks \in WriteOutcomes(
                        FlushWrites(pending_data, Head(background_tasks))) :
              BackgroundFlush(oks) /\ Step(MaxIntakeSteps)

SpecIntake == Init /\ [][NextIntake]_vars

-----------------------------------------------------------------------------
(* SpecDeferred: sessions ended over HTTP, the queued flushes, and the      *)
(* assessment endpoint.  The server runs a queued task once the response    *)
(* is sent: the task is not an operation of a client, takes no step of     *)
(* the run's bound, and is weakly fair.                                     *)

QueuedFlush ==
    /\ Scripted
    /\ background_tasks # <<>>
    /\ \E oks \in FlushOutcomes(
                    FlushWrites(pending_data, Head(background_tasks))) :
           BackgroundFlush(oks)

NextDeferred ==
    \/ \E u \in Users : StartSession(u, "m1") /\ Step(MaxDeferredSteps)
    \/ \E u \in Users : \E outcome \in N8nOutcomes :
           EndReflection(u, ReplyK, ReplyGoals, outcome)
           /\ Step(MaxDeferredSteps)
    \/ \E u \in Users : \E oks \in FlushOutcomes(FlushWrites(pending_data, u)) :
           Flush(u, oks) /\ Step(MaxDeferredSteps)
    \/ QueuedFlush

\* the step that takes the head of the queue: QueuedFlush is the only step
\* of NextDeferred that shortens the queue, and it can be taken whenever the
\* queue is not empty
Dequeued ==
    /\ background_tasks # <<>>
    /\ background_tasks' = Tail(background_tasks)

\* the server never leaves a queued task waiting forever
SpecDeferred ==
    Init /\ [][NextDeferred]_vars /\ WF_background_tasks(Dequeued)

-----------------------------------------------------------------------------
(* SpecRace: endSession called on two threads of one process.  The agent   *)
(* keeps no lock on conversation_buffer, and the model call between the    *)
(* read and the erase blocks, so the steps of two calls interleave freely. *)

RaceStep == Tick(MaxRaceSteps)

NextRace ==
    \/ \E u \in Users : StartSession(u, "m1") /\ Step(MaxRaceSteps)
    \/ \E t \in Threads : \E u \in Users : EndSessionRead(t, u) /\ RaceStep
    \/ \E t \in Threads : \E response \in {ReplyK, ReplyScalar} :
           EndSessionSummarize(t, response) /\ RaceStep
    \/ \E t \in Threads : EndSessionErase(t) /\ RaceStep

SpecRace == Init /\ [][NextRace]_vars

-----------------------------------------------------------------------------
(* SpecWindow: conversations longer than the window of continueSession *)

NextWindow ==
    \/ \E u \in Users : StartSession(u, "m1") /\ Step(MaxWindowSteps)
    \/ \E u \in Users : \E m \in {"m2", "m3"} :
           ContinueSession(u, m) /\ Step(MaxWindowSteps)
    \/ \E u \in Users : EndSession(u, ReplyK) /\ Step(MaxWindowSteps)

SpecWindow == Init /\ [][NextWindow]_vars

-----------------------------------------------------------------------------
(* SpecPipeline: the session-end handlers of main.py and of the Reflection *)
(* page, one statement at a time, with the queued flush of the server.     *)

NextPipeline ==
    \/ \E u \in Users : StartSession(u, "m1") /\ Step(MaxPipelineSteps)
    \/ \E u \in Users : \E path \in {"http", "page"} :
           PipelineSummarize("t1", u, path, ReplyK) /\ Tick(MaxPipelineSteps)
    \/ PipelineCollectReflection("t1") /\ Tick(MaxPipelineSteps)
    \/ PipelinePlan("t1", ReplyGoals) /\ Tick(MaxPipelineSteps)
    \/ \E outcome \in N8nOutcomes :
           PipelineSync("t1", outcome) /\ Tick(MaxPipelineSteps)
    \/ PipelineCollectGoals("t1") /\ Tick(MaxPipelineSteps)
    \/ PipelineCollectFeedback("t1") /\ Tick(MaxPipelineSteps)
    \/ PipelineQueueFlush("t1") /\ Tick(MaxPipelineSteps)
    \/ \E oks \in FlushOutcomes(
                      FlushWrites(pending_data, calls["t1"].user_id)) :
           PipelineFlush("t1", oks) /\ Tick(MaxPipelineSteps)
    \/ QueuedFlush

SpecPipeline == Init /\ [][NextPipeline]_vars

-----------------------------------------------------------------------------
(* SpecProviders: the calls to the language-model providers and to the     *)
(* webhook, under every outcome of each request                            *)

ProviderOutcomes ==
    {ProviderOk("reply"), ProviderOk(""), ProviderOk(Apology), ProviderRaises}

NextProviders ==
    \/ \E backup_llm \in {None, "groq"} : \E primary \in ProviderOutcomes :
       \E backup \in ProviderOutcomes :
           Invoke(backup_llm, primary, backup) /\ Step(MaxProviderSteps)
    \/ \E u \in Users : \E task_payload \in SyncPayloads(u) :
       \E outcome \in N8nOutcomes :
           SyncExternal(task_payload, outcome) /\ Step(MaxProviderSteps)

SpecProviders == Init /\ [][NextProviders]_vars

-----------------------------------------------------------------------------
(* SpecStore: the read and write operations of the store, with faults *)

NextStore ==
    \/ \E coll \in Collections : \E u \in Users :
       \E metadata \in StoreMetadata : \E ok \in BOOLEAN :
           StoreWrite(coll, u, metadata, ok) /\ Step(MaxStoreSteps)
    \/ \E coll \in Collections : \E u \in Users : \E ok \in BOOLEAN :
           StoreRead(coll, u, ok) /\ Step(MaxStoreSteps)

SpecStore == Init /\ [][NextStore]_vars

-----------------------------------------------------------------------------
(* SpecMaintain: writes that succeed, then the maintenance delete *)

NextMaintain ==
    \/ \E coll \in Collections : \E u \in Users :
       \E metadata \in StoreMetadata :
           StoreWrite(coll, u, metadata, TRUE) /\ Step(MaxMaintainSteps)
    \/ \E u \in Users : \E cutoff \in 0..MaxMaintainSteps :
       \E fault \in 0..6 :
           DeleteOldData(u, cutoff, fault) /\ Step(MaxMaintainSteps)

SpecMaintain == Init /\ [][NextMaintain]_vars

-----------------------------------------------------------------------------
(* SpecSearch: search over lists of candidates *)

InitSearch ==
    InitState /\ llm_response = None /\ serper_response \in ResultLists

NextSearch ==
    \/ \E query_terms \in QueryTerms : \E filters \in FilterArgs :
           Search("u1", serper_response, query_terms, filters) /\ Scripted

SpecSearch == InitSearch /\ [][NextSearch]_vars

-----------------------------------------------------------------------------
(* SpecScenario: the search scenario, over the snippets of its two results *)

InitScenario ==
    InitState /\ llm_response = None /\ serper_response \in ScenarioResultLists

NextScenario ==
    \/ Search("u1", serper_response, ScenarioQuery, EmptyDict) /\ Scripted

SpecScenario == InitScenario /\ [][NextScenario]_vars

-----------------------------------------------------------------------------
(* SpecSanitize: the sanitizer over metadata maps of every value type *)

NextSanitize ==
    \/ \E choice \in SanitizeChoices :
           Sanitize(SanitizeMap(choice)) /\ Scripted

SpecSanitize == Init /\ [][NextSanitize]_vars

-----------------------------------------------------------------------------
(* SpecClassify: the community-type tag of every text *)

NextClassify ==
    \/ \E text \in ClassifierTexts : Classify(text) /\ Scripted

SpecClassify == Init /\ [][NextClassify]_vars

-----------------------------------------------------------------------------
(* Properties *)

\* absent, or present with three empty lists
AccumulatorEmpty(pd, u) == ~Has(pd, u) \/ pd[u] = EmptyUserData
AllWritesSucceed(log) == \A i \in DOMAIN log : log[i].success
\* the ids of user u's records in a collection
RecordsOf(coll, u) == UserDocs(coll, u)
\* every record of the store before the step is still there, unchanged
RecordsKept ==
    \A c \in Collections : \A id \in DOMAIN store[c] :
        id \in DOMAIN store'[c] /\ store'[c][id] = store[c][id]
\* the records a step adds to collection c
NewRecords(c) == (DOMAIN store'[c]) \ (DOMAIN store[c])

\* C1: a flush for a user whose accumulator is absent, or present with all
\* three lists empty (as an earlier flush leaves it), returns the no-op
\* status and writes nothing to the store.
C1_EmptyFlushIsNoOp ==
    [][\A u \in Users :
          (last'.op = "flush" /\ last'.user = u
           /\ AccumulatorEmpty(pending_data, u))
          => (last'.ret = Return(NoData) /\ store' = store)]_vars

\* C2: a flush of r reflections, g task payloads and f feedback items whose
\* writes all succeed returns the counts r, g, f and state_updated true, adds
\* exactly r, g, f and 1 records of that user to the reflections, goals,
\* interactions and states collections, keeps every earlier record, and
\* leaves the user's accumulator empty.
C2_FlushCounts ==
    [][\A u \in Users :
          (last'.op = "flush" /\ last'.user = u
           /\ ~AccumulatorEmpty(pending_data, u)
           /\ AllWritesSucceed(last'.arg))
          => /\ last'.ret = Return(
                    [reflections_processed |-> Len(pending_data[u].reflections),
                     goals_processed |-> Len(pending_data[u].goals),
                     feedback_processed |-> Len(pending_data[u].feedback),
                     state_updated |-> TRUE])
             /\ Cardinality(NewRecords("reflections"))
                    = Len(pending_data[u].reflections)
             /\ Cardinality(NewRecords("goals")) = Len(pending_data[u].goals)
             /\ Cardinality(NewRecords("interactions"))
                    = Len(pending_data[u].feedback)
             /\ Cardinality(NewRecords("states")) = 1
             /\ \A c \in Collections :
                    NewRecords(c) \subseteq RecordsOf(store'[c], u)
             /\ RecordsKept
             /\ pending_data'[u] = EmptyUserData]_vars

\* two reflections and one task payload were flushed: 2, 1 and one state record
C2_Witness ==
    /\ last.op = "flush"
    /\ last.ret = Return([reflections_processed |-> 2, goals_processed |-> 1,
                          feedback_processed |-> 0, state_updated |-> TRUE])
    /\ Cardinality(RecordsOf(store["reflections"], last.user)) = 2
    /\ Cardinality(RecordsOf(store["goals"], last.user)) = 1
    /\ Cardinality(RecordsOf(store["states"], last.user)) = 1
    /\ pending_data[last.user] = EmptyUserData

\* C3: after a flush that found data the accumulator is present with three
\* empty lists whatever the outcome of the writes; the flush attempted
\* exactly the items the accumulator held, so none of them, failed or not,
\* is left for a later flush.
C3_FlushClears ==
    [][\A u \in Users :
          (last'.op = "flush" /\ last'.user = u
           /\ ~AccumulatorEmpty(pending_data, u))
          => /\ Has(pending_data', u)
             /\ pending_data'[u] = EmptyUserData
             /\ [i \in 1..(Len(last'.arg) - 1) |-> last'.arg[i].item]
                    = pending_data[u].reflections \o pending_data[u].goals
                      \o pending_data[u].feedback
             /\ last'.arg[Len(last'.arg)].category = "states"]_vars

\* a flush in which an item's write and the state write failed has cleared
\* the accumulator
C3_Witness ==
    /\ last.op = "flush"
    /\ Len(last.arg) > 1
    /\ ~last.arg[1].success
    /\ ~last.arg[Len(last.arg)].success
    /\ pending_data[last.user] = EmptyUserData

\* C4: the store changes only in a flush (run directly or as the queued
\* background task); every other operation leaves the four collections
\* unchanged.
C4_SingleWriter ==
    [][store' # store => last'.op \in {"flush", "background_flush"}]_vars

\* getStatistics found a state record, which a flush wrote, and left it there
C4_Witness ==
    /\ last.op = "getStatistics"
    /\ last.ret.exc = None
    /\ store["states"] # EmptyDict

\* C5: an endSession made while the user has a session leaves the user with
\* no session, whatever the model's reply.
C5_EndSessionErases ==
    (last.op = "endSession" /\ last.arg.active)
    => ~Has(conversation_buffer, last.user)

\* C6: endSession for a user with no session fails with ValueError (400 at
\* the HTTP layer) and changes nothing: no session, nothing collected, goal
\* cache and feedback buffer unchanged, no flush queued.
C6_EndWithoutSession ==
    [][\A u \in Users :
          (last'.user = u /\ last'.op \in {"endSession", "end_reflection"}
           /\ ~Has(conversation_buffer, u))
          => /\ last'.op = "endSession" => last'.ret = Raise("ValueError")
             /\ last'.op = "end_reflection"
                    => last'.ret = [status_code |-> 400, detail |-> "ValueError"]
             /\ UNCHANGED <<conversation_buffer, pending_tasks, feedback_buffer,
                            pending_data, store, clock, background_tasks>>]_vars

\* the HTTP handler answered 400 for a user without a session
C6_Witness ==
    /\ last.op = "end_reflection"
    /\ ~last.arg.active
    /\ last.ret = [status_code |-> 400, detail |-> "ValueError"]
    /\ ~Has(conversation_buffer, last.user)
    /\ background_tasks = <<>>

\* the expected reply: one well-typed JSON object, with or without prose
\* around it
ExpectedSummaryJson(response) ==
    \E i \in 1..Len(response) :
        /\ response[i].c = "K"
        /\ \A j \in (1..Len(response)) \ {i} : response[j].c = "x"

\* C7: for every reply that is not the expected JSON object, endSession on an
\* active session returns a summary with tone "reflective" and at most 300
\* characters, and does not raise.
C7_MalformedGivesFallback ==
    (last.op = "endSession" /\ last.arg.active
     /\ ~ExpectedSummaryJson(last.arg.input))
    => /\ last.ret.exc = None
       /\ last.ret.value.emotional_tone = "reflective"
       /\ StrLen(last.ret.value.summary) <= SummaryMax

\* C8: continueSession is never an error; without a session it has exactly
\* the effect of startSession with the same message (the session holds that
\* one exchange), and on an active session the session stays active, one
\* exchange longer.  Other users' sessions are untouched.
C8_ContinueStartsOrStays ==
    [][\A u \in Users :
          (last'.op = "continueSession" /\ last'.user = u)
          => /\ last'.ret.exc = None
             /\ Has(conversation_buffer', u)
             /\ IF ~Has(conversation_buffer, u)
                THEN /\ conversation_buffer'[u] =
                            <<Message("user", last'.arg.input),
                              Message("assistant", last'.ret.value)>>
                     /\ conversation_buffer' =
                            start_reflection_session(conversation_buffer, u,
                                last'.arg.input, last'.ret.value)
                ELSE conversation_buffer'[u] =
                         conversation_buffer[u]
                         \o <<Message("user", last'.arg.input),
                              Message("assistant", last'.ret.value)>>
             /\ \A v \in Users \ {u} :
                    /\ Has(conversation_buffer', v) = Has(conversation_buffer, v)
                    /\ Has(conversation_buffer, v)
                           => conversation_buffer'[v] = conversation_buffer[v]]_vars

\* continueSession without a session has opened one holding that exchange
C8_Witness ==
    /\ last.op = "continueSession"
    /\ ~last.arg.active
    /\ conversation_buffer[last.user] =
           <<Message("user", last.arg.input), Message("assistant", ChatReply)>>

IsPrefix(a, b) == Len(a) <= Len(b) /\ SubSeq(b, 1, Len(a)) = a
\* the step drops user u's conversation: the session is gone, or what it
\* holds no longer starts with the conversation held before
Discarded(u) ==
    /\ Has(conversation_buffer, u)
    /\ \/ ~Has(conversation_buffer', u)
       \/ ~IsPrefix(conversation_buffer[u], conversation_buffer'[u])

\* C9 as stated: a session's conversation is discarded only by that user's
\* endSession or an explicit clear.
C9_DiscardOnlyByEndOrClear ==
    [][\A u \in Users :
          Discarded(u)
          => (last'.user = u /\ last'.op \in {"endSession", "clear"})]_vars

\* C9 amended: there is one conversation per user id, and it is discarded only
\* by that user's endSession, an explicit clear, or a startSession, which
\* replaces it with the new first exchange.
C9_DiscardByEndClearOrStart ==
    [][/\ DOMAIN conversation_buffer' \subseteq Users
       /\ \A u \in Users :
             Discarded(u)
             => /\ last'.user = u
                /\ last'.op \in {"endSession", "clear", "startSession"}
                /\ last'.op = "startSession"
                       => conversation_buffer'[u] =
                              <<Message("user", last'.arg.input),
                                Message("assistant", last'.ret.value)>>]_vars

\* startSession ran for a user who had a session and left only the new exchange
C9_Witness ==
    /\ last.op = "startSession"
    /\ last.arg.active
    /\ last.arg.input = "m2"
    /\ conversation_buffer[last.user] =
           <<Message("user", "m2"), Message("assistant", ChatReply)>>

\* no run of the reply is a JSON object that validates as a Goal
NoValidGoal(response) ==
    \A i \in 1..Len(response) : response[i].c \notin {"G", "H"}
\* neither the bracketed part nor the whole reply is JSON
Unparseable(response) ==
    json_loads(goals_json_text(response)) = JSONDecodeError

\* C10: plan never raises and always returns at least one goal; for a reply
\* that is unparseable or holds no valid Goal (an empty array, an array of
\* invalid elements) the payload holds exactly the fallback Goal: "Daily
\* Reflection Check-in", 10 minutes, medium, daily.  The payload is cached.
C10_MalformedGivesFallbackGoal ==
    last.op = "plan"
    => /\ last.ret.exc = None
       /\ Len(last.ret.value.goals) >= 1
       /\ pending_tasks[last.user] = last.ret.value
       /\ (NoValidGoal(last.arg) \/ Unparseable(last.arg))
              => last.ret.value.goals =
                     <<Goal("Daily Reflection Check-in",
                            "Take 10 minutes to reflect on today's progress and emotions",
                            "medium", 10, "daily")>>

\* plan got an array whose only element fails validation and gave the fallback
C10_Witness ==
    /\ last.op = "plan"
    /\ last.arg = <<Run("[", 1), Run("B", 30), Run("]", 1)>>
    /\ Len(last.ret.value.goals) = 1
    /\ last.ret.value.goals[1].title = "Daily Reflection Check-in"

\* C11: the goal cache is last-write-wins per user.  It starts empty and
\* changes only in a plan, which sets that user's entry to the payload it
\* returns and leaves every other entry alone; getPending returns the cached
\* payload or none; getPending, syncExternal and a resync leave the cache as
\* it is, and a resync sends the cached payload.
C11_CacheLastWriteWins ==
    [][/\ pending_tasks' # pending_tasks => last'.op = "plan"
       /\ last'.op = "plan"
              => /\ pending_tasks' =
                        Put(pending_tasks, last'.user, last'.ret.value)
                 /\ last'.ret.value.user_id = last'.user
       /\ last'.op = "getPending"
              => last'.ret = Return(IF Has(pending_tasks, last'.user)
                                    THEN pending_tasks[last'.user] ELSE None)
       /\ last'.op = "resyncGoals"
              => IF Has(pending_tasks, last'.user)
                 THEN /\ last'.ret.status_code = 200
                      /\ last'.ret.sync_result =
                             send_to_n8n(pending_tasks[last'.user], last'.arg)
                 ELSE last'.ret.status_code = 404]_vars

\* a resync sent both goals of the cached payload
C11_Witness ==
    /\ last.op = "resyncGoals"
    /\ last.ret.status_code = 200
    /\ last.ret.sync_result.status = "success"
    /\ last.ret.sync_result.tasks_sent = 2
    /\ Len(pending_tasks[last.user].goals) = 2

\* C12: syncExternal never raises, and in every outcome returns a record
\* whose status is success or error, with a message on error and a count of
\* tasks sent: the number of goals on success, 0 on error.
C12_SyncReturnsStatusRecord ==
    last.op = "syncExternal"
    => /\ last.ret.exc = None
       /\ last.ret.value.status \in {"success", "error"}
       /\ "tasks_sent" \in DOMAIN last.ret.value
       /\ last.ret.value.status = "error"
              => /\ "message" \in DOMAIN last.ret.value
                 /\ last.ret.value.tasks_sent = 0
       /\ last.ret.value.status = "success"
              => last.ret.value.tasks_sent = Len(last.arg.task_payload.goals)

\* C13: drainFeedback is read-once.  recordFeedback appends to the user's
\* buffer; a drain returns the whole buffer of that user in recording order
\* (the empty list when there is none), removes it and leaves other users'
\* buffers alone; so a drain right after a drain of the same user returns the
\* empty list.
C13_DrainReadsOnce ==
    [][/\ last'.op = "recordFeedback"
              => feedback_buffer' =
                     Put(feedback_buffer, last'.user,
                         Append(Get(feedback_buffer, last'.user, <<>>),
                                last'.arg))
       /\ last'.op = "drainFeedback"
              => /\ last'.ret =
                        Return(Get(feedback_buffer, last'.user, <<>>))
                 /\ ~Has(feedback_buffer', last'.user)
                 /\ \A v \in Users \ {last'.user} :
                        Get(feedback_buffer', v, <<>>)
                            = Get(feedback_buffer, v, <<>>)
       /\ (last'.op = "drainFeedback" /\ last.op = "drainFeedback"
           /\ last'.user = last.user)
              => last'.ret = Return(<<>>)]_vars

\* a drain returned two items in the order they were recorded and left the
\* user without a buffer
C13_Witness ==
    /\ last.op = "drainFeedback"
    /\ Len(last.ret.value) = 2
    /\ last.ret.value[1].recommendation_id = "url2"
    /\ last.ret.value[2].recommendation_id = "url1"
    /\ ~Has(feedback_buffer, last.user)

\* the feedback items of user u waiting in the buffer / in the accumulator
BufferedFeedback(fb, u) == Get(fb, u, <<>>)
AccumulatedFeedback(pd, u) == IF Has(pd, u) THEN pd[u].feedback ELSE <<>>
\* the items a flush tried to write to the interactions collection, in order
RECURSIVE AttemptedFeedback(_)
AttemptedFeedback(log) ==
    IF log = <<>> THEN <<>>
    ELSE (IF Head(log).category = "feedback" THEN <<Head(log).item>> ELSE <<>>)
         \o AttemptedFeedback(Tail(log))
RECURSIVE SucceededFeedback(_)
SucceededFeedback(log) ==
    IF log = <<>> THEN 0
    ELSE (IF Head(log).category = "feedback" /\ Head(log).success THEN 1 ELSE 0)
         + SucceededFeedback(Tail(log))

\* C14: every recorded feedback item enters the accumulator exactly once and
\* is attempted at most once.  recordFeedback appends the item to the buffer;
\* a drain-then-collect (in end_reflection) moves the whole buffer to the end
\* of the accumulator; a flush attempts exactly the accumulated items, each
\* once, adds one interactions record per success and empties the
\* accumulator; the Support page's submit does the three at once; nothing
\* else touches the items, and other users' items stay where they are.
C14_FeedbackOnce ==
    [][\A u \in Users :
        LET buffered == BufferedFeedback(feedback_buffer, u)
            accumulated == AccumulatedFeedback(pending_data, u)
            buffered2 == BufferedFeedback(feedback_buffer', u)
            accumulated2 == AccumulatedFeedback(pending_data', u)
        IN IF last'.user # u
           THEN buffered2 = buffered /\ accumulated2 = accumulated
           ELSE /\ last'.op = "recordFeedback"
                    => /\ buffered2 = Append(buffered, last'.arg)
                       /\ accumulated2 = accumulated
                /\ (last'.op = "end_reflection" /\ last'.ret.status_code = 200)
                    => /\ buffered2 = <<>>
                       /\ accumulated2 = accumulated \o buffered
                /\ last'.op \in {"flush", "background_flush"}
                    => /\ buffered2 = buffered
                       /\ accumulated2 = <<>>
                       /\ AttemptedFeedback(last'.arg) = accumulated
                       /\ Cardinality(NewRecords("interactions"))
                              = SucceededFeedback(last'.arg)
                /\ last'.op = "submitFeedbackPage"
                    => /\ buffered2 = <<>>
                       /\ accumulated2 = <<>>
                       /\ \E x \in FeedbackItems(u) :
                              AttemptedFeedback(last'.arg)
                                  = accumulated \o buffered \o <<x>>
                       /\ Cardinality(NewRecords("interactions"))
                              = SucceededFeedback(last'.arg)
                /\ (last'.op \notin {"recordFeedback", "flush",
                                      "background_flush", "submitFeedbackPage"}
                    /\ ~(last'.op = "end_reflection"
                         /\ last'.ret.status_code = 200))
                    => buffered2 = buffered /\ accumulated2 = accumulated]_vars

\* the background flush after an end_reflection attempted the recorded item
\* once and wrote it
C14_Witness ==
    /\ last.op = "background_flush"
    /\ Len(AttemptedFeedback(last.arg)) = 1
    /\ Cardinality(DOMAIN store["interactions"]) = 1
    /\ AccumulatedFeedback(pending_data, last.user) = <<>>
    /\ BufferedFeedback(feedback_buffer, last.user) = <<>>

\* the exclusion keywords of a search: built-in and caller-supplied
ExcludedFor(filters) ==
    builtin_excluded_keywords
    \cup (IF "excluded_keywords" \in DOMAIN filters
          THEN filters["excluded_keywords"] ELSE {})
\* the score the contract gives a candidate, in units of 1/300
ExpectedScore(result, query_terms) ==
    LET k == Cardinality((result.title.has \cup result.snippet.has)
                         \cap community_keywords)
        raw == IF result.title.has \cap query_terms # {}
               THEN 30 * k + boost_rounding(k) ELSE 20 * k
    IN IF raw > 300 THEN 300 ELSE raw
\* the candidate survives the filter
Survives(result, query_terms, filters) ==
    /\ (result.title.has \cup result.snippet.has) \cap ExcludedFor(filters) = {}
    /\ ExpectedScore(result, query_terms) > 30
\* the positions of the candidates that survive
SurvivingPositions(arg) ==
    {i \in DOMAIN arg.search_results :
        Survives(arg.search_results[i], arg.query_terms, arg.filters)}
\* candidate i ranks before candidate j: a higher score, or the same score
\* and an earlier place in the client's list
RanksBefore(arg, i, j) ==
    LET si == ExpectedScore(arg.search_results[i], arg.query_terms)
        sj == ExpectedScore(arg.search_results[j], arg.query_terms)
    IN si > sj \/ (si = sj /\ i < j)

\* C15: search returns at most 5 recommendations in non-increasing order of
\* score; they are the highest-ranking surviving candidates, ties in the
\* client's order; an empty client result gives the empty list.
C15_TopFiveInOrder ==
    last.op = "search"
    => LET out == last.ret.value
           surviving == SurvivingPositions(last.arg)
           returned == {out[a].source_position : a \in DOMAIN out}
       IN /\ Len(out) <= 5
          /\ Len(out) = IF Cardinality(surviving) < 5
                        THEN Cardinality(surviving) ELSE 5
          /\ Cardinality(returned) = Len(out)
          /\ returned \subseteq surviving
          /\ \A a \in DOMAIN out : \A b \in DOMAIN out :
                 a < b => /\ out[a].relevance_score >= out[b].relevance_score
                          /\ RanksBefore(last.arg, out[a].source_position,
                                         out[b].source_position)
          /\ \A i \in returned : \A j \in surviving \ returned :
                 RanksBefore(last.arg, i, j)
          /\ last.arg.search_results = <<>> => out = <<>>

\* six candidates survived; five were returned, the tie between the first and
\* the last of the list in the client's order, and one was cut
C15_Witness ==
    /\ last.op = "search"
    /\ Cardinality(SurvivingPositions(last.arg)) = 6
    /\ Len(last.ret.value) = 5
    /\ last.ret.value[1].source_position = 3
    /\ last.ret.value[2].source_position = 1
    /\ last.ret.value[3].source_position = 6
    /\ last.ret.value[2].relevance_score = last.ret.value[3].relevance_score

\* C16: every returned recommendation comes from a candidate that holds no
\* exclusion keyword (built-in or caller-supplied) in title+snippet, and its
\* score is (community keywords in title+snippet)/15, times 1.5 when a query
\* term occurs in the title, clipped to 1.0, and lies in (0.1, 1.0]; no
\* candidate holding an exclusion keyword or scoring <= 0.1 is returned, and
\* when fewer than 5 are returned no surviving candidate is missing.
C16_ScoreAndFilter ==
    last.op = "search"
    => LET out == last.ret.value
           results == last.arg.search_results
           returned == {out[a].source_position : a \in DOMAIN out}
       IN /\ \A a \in DOMAIN out :
                 LET result == results[out[a].source_position] IN
                 /\ (result.title.has \cup result.snippet.has)
                        \cap ExcludedFor(last.arg.filters) = {}
                 /\ out[a].relevance_score =
                        ExpectedScore(result, last.arg.query_terms)
                 /\ out[a].relevance_score > 30
                 /\ out[a].relevance_score <= 300
                 /\ out[a].title = result.title
                 /\ out[a].url = result.url
          /\ \A i \in DOMAIN results :
                 ~Survives(results[i], last.arg.query_terms, last.arg.filters)
                     => i \notin returned
          /\ Len(out) < 5
                 => returned = SurvivingPositions(last.arg)

\* of four candidates the one with a single keyword and a query term in its
\* title (score exactly 0.1) and the shop were dropped; the boosted
\* twelve-keyword candidate was returned with the clipped score 1.0
C16_Witness ==
    /\ last.op = "search"
    /\ Len(last.arg.search_results) = 4
    /\ last.arg.search_results[1] =
           SerperResult(CandidateSingle.title, CandidateSingle.snippet,
                        <<"link", 1>>, 1)
    /\ last.arg.search_results[2].title = CandidateShop.title
    /\ last.arg.search_results[3].title = CandidateStrong.title
    /\ last.arg.query_terms = {"sobriety"}
    /\ Len(last.ret.value) = 2
    /\ last.ret.value[1].source_position = 3
    /\ last.ret.value[1].relevance_score = 300

\* the fixed precedence: the words that must all occur, and the tag
Precedence ==
    <<[words |-> {"reddit"}, tag |-> "reddit"],
      [words |-> {"discord"}, tag |-> "discord"],
      [words |-> {"forum"}, tag |-> "forum"],
      [words |-> {"facebook"}, tag |-> "facebook_group"],
      [words |-> {"meetup"}, tag |-> "meetup"],
      [words |-> {"12", "step"}, tag |-> "12_step_program"]>>
\* the entries of the precedence order that a text matches
Matching(text) == {i \in DOMAIN Precedence : Precedence[i].words \subseteq text}

\* C17: the community-type tag is that of the first entry of the precedence
\* reddit > discord > forum > facebook > meetup > 12-step whose words occur
\* in the text, whatever later ones also occur, and online community when
\* none occurs.
C17_FirstMatchWins ==
    last.op = "classify"
    => IF Matching(last.arg) = {}
       THEN last.ret = Return("online_community")
       ELSE \E i \in Matching(last.arg) :
               /\ \A j \in Matching(last.arg) : i <= j
               /\ last.ret = Return(Precedence[i].tag)

\* a text with discord, forum, meetup and both 12-step words was tagged discord
C17_Witness ==
    /\ last.op = "classify"
    /\ last.arg = {"discord", "forum", "meetup", "12", "step"}
    /\ last.ret = Return("discord")

\* the scenario's search has run
ScenarioSearched ==
    /\ last.op = "search"
    /\ last.arg.query_terms = ScenarioQuery
    /\ Len(last.arg.search_results) = 2
    /\ last.arg.search_results[1].title = ScenarioTitleFirst
    /\ last.arg.search_results[2].title = ScenarioTitleSecond
\* the words of the first result's snippet
FirstSnippet == last.arg.search_results[1].snippet.has
\* the recommendations returned for the result at a position of the list
ReturnedAt(position) ==
    {i \in DOMAIN last.ret.value :
        last.ret.value[i].source_position = position}

ColdStore == \A c \in Collections : UserDocs(store[c], last.user) = {}
\* every read of the last getStatistics call faulted
ReadsFaulted == \A i \in DOMAIN last.arg : ~last.arg[i]

\* C19: getStatistics, for a user with no record in any collection or when
\* the store reads fault, does not raise and returns zero totals and a null
\* current_state.
C19_ColdStoreGivesZeros ==
    (last.op = "getStatistics" /\ (ColdStore \/ ReadsFaulted))
    => /\ last.ret.exc = None
       /\ last.ret.value.total_reflections = 0
       /\ last.ret.value.total_goals = 0
       /\ last.ret.value.total_interactions = 0
       /\ last.ret.value.current_state = None

\* the store keys of the matches a read returned
ReturnedKeys == DOMAIN last.ret.value.documents[1]
\* a fault of a read or a write is contained: a faulted read returns the
\* empty result, a write returns its outcome, and the store holds the record
\* exactly when the write succeeded
FaultsContained ==
    /\ last.op = "storeRead"
       => /\ last.ret.exc = None
          /\ ~last.arg.ok => last.ret.value = EmptyResult
    /\ last.op = "storeWrite"
       => /\ last.ret.exc = None
          /\ last.ret.value = last.arg.ok
          /\ last.arg.ok
             <=> last.arg.document_id \in DOMAIN store[last.arg.coll]

\* C20: no read and no write of the store raises; a read returns only
\* records written for the requesting user, and the empty result on a fault;
\* a write returns true on success and false on a fault, and the store is
\* then without the record.
C20_StoreFaultsContained ==
    /\ FaultsContained
    /\ last.op = "storeRead" => \A id \in ReturnedKeys : id[1] = last.user

\* a map with every None in it, at any depth, replaced by the empty string
RECURSIVE NoneSafe(_)
NoneSafe(d) ==
    [k \in DOMAIN d |->
        IF d[k].ty = "none" THEN PyStr("")
        ELSE IF d[k].ty = "dict" THEN PyDict(NoneSafe(d[k].v))
        ELSE d[k]]
\* two maps of values are the same, type by type
RECURSIVE SameMap(_, _)
SameMap(a, b) ==
    /\ DOMAIN a = DOMAIN b
    /\ \A k \in DOMAIN a :
          /\ a[k].ty = b[k].ty
          /\ IF a[k].ty = "dict" THEN SameMap(a[k].v, b[k].v)
             ELSE IF a[k].ty = "none" THEN TRUE
             ELSE a[k].v = b[k].v
\* the rule of the sanitizer for one value
SanitizedAs(val, clean) ==
    /\ clean.ty \notin {"none", "list", "tuple", "set", "dict"}
    /\ val.ty = "none" => clean.ty = "str" /\ clean.v = ""
    /\ val.ty \in {"list", "tuple", "set"}
       => clean.ty = "str" /\ clean.v = join(val.v)
    /\ val.ty = "dict"
       => /\ clean.ty = "str"
          /\ clean.v[1] = "json"
          /\ SameMap(clean.v[2], NoneSafe(val.v))
    /\ val.ty \in {"str", "int"} => clean = val

\* C21: the sanitizer turns None into the empty string, a list, tuple or
\* set into one comma-joined string, a map into the JSON text of the map
\* with every None inside it, at any depth, replaced by the empty string,
\* and leaves every other value as it is; the result holds only scalars and
\* sanitizing it again changes nothing.
C21_SanitizeRules ==
    last.op = "sanitize"
    => /\ last.ret.exc = None
       /\ DOMAIN last.ret.value = DOMAIN last.arg
       /\ \A k \in DOMAIN last.arg :
              SanitizedAs(last.arg[k], last.ret.value[k])
       /\ _sanitize_metadata(last.ret.value) = last.ret.value

\* C22: every record in the store carries, as its user_id, the user id
\* argument of the write that stored it, and a timestamp, whatever keys the
\* caller's metadata holds; a read filtered by user then returns exactly
\* that user's records.
C22_RecordsCarryWriter ==
    \A coll \in Collections : \A id \in DOMAIN store[coll] :
        /\ Has(store[coll][id].metadata, "timestamp")
        /\ Has(store[coll][id].metadata, "user_id")
        /\ store[coll][id].metadata["user_id"] = PyStr(id[1])

\* the records of a collection written for a user before the cutoff
WrittenOld(coll, u, cutoff) ==
    {id \in DOMAIN coll : id[1] = u /\ coll[id].metadata["timestamp"].v < cutoff}
\* the records a step removed from a collection
Removed(name) == (DOMAIN store[name]) \ (DOMAIN store'[name])
\* what a maintenance delete for last'.user did
DeletedOnlyOld ==
    /\ last'.ret.exc = None
    /\ \A name \in Collections :
          /\ Removed(name)
             \subseteq WrittenOld(store[name], last'.user, last'.arg.cutoff)
          /\ \A id \in DOMAIN store'[name] :
                id \in DOMAIN store[name] /\ store'[name][id] = store[name][id]
          /\ last'.arg.fault = 0
             => Removed(name)
                = WrittenOld(store[name], last'.user, last'.arg.cutoff)
    /\ \A name \in DOMAIN last'.ret.value :
          last'.ret.value[name] = Cardinality(Removed(name))

\* C23: the maintenance delete for a user removes the records written for
\* that user before the cutoff and nothing else, leaves every other record
\* as it was, returns per collection the number of records it removed, and
\* does not raise on a store fault.
C23_DeleteRemovesOnlyOld ==
    [][(last'.op = "deleteOldData" /\ steps' # steps) => DeletedOnlyOld]_vars

\* the HTTP session end for u has just returned 200
EndedOk(u) ==
    last.op = "end_reflection" /\ last.user = u /\ last.ret.status_code = 200
\* a state record of u written at or after c that counts a reflection and goals
StateRecordSince(u, c) ==
    \E id \in DOMAIN store["states"] :
        /\ store["states"][id].metadata["user_id"] = PyStr(u)
        /\ store["states"][id].metadata["timestamp"].v >= c
        /\ store["states"][id].metadata["reflection_count"].v >= 1
        /\ store["states"][id].metadata["goal_count"].v >= 1
\* a flush for u has just had a store write fault
WriteFaulted(u) ==
    /\ last.op \in {"background_flush", "flush"}
    /\ last.user = u
    /\ \E i \in DOMAIN last.arg : ~last.arg[i].success
\* the session end returned without touching the store, its flush queued
ReturnedBeforeFlush ==
    /\ store' = store
    /\ clock' = clock
    /\ background_tasks' = Append(background_tasks, last'.user)
    /\ last'.ret.assessment_results = "processing_in_background"

DeferredClockBound == clock <= MaxDeferredClock

\* the call on t takes its erase step
Erases(t) == calls[t].pc = "summarized" /\ calls'[t].pc = "done"
\* the erase of a call removes the session and hands the summary back, or
\* finds the session gone and raises KeyError
ErasedOrGone(t) ==
    IF Has(conversation_buffer, calls[t].user_id)
    THEN /\ ~Has(conversation_buffer', calls[t].user_id)
         /\ calls'[t].ret = calls[t].ret
    ELSE /\ conversation_buffer' = conversation_buffer
         /\ calls'[t].ret.exc = "KeyError"
\* a call in progress on another thread never keeps a thread from reading
ReadNeverBlocked ==
    \A t \in Threads : \A u \in Users :
        (calls[t].pc \in {"idle", "done"} /\ steps < MaxRaceSteps)
        => ENABLED (EndSessionRead(t, u) /\ RaceStep)

AttemptsOf(log, category) == {i \in DOMAIN log : log[i].category = category}
Succeeded(log, category) == {i \in AttemptsOf(log, category) : log[i].success}
\* the i-th to j-th entries of the log are one attempt for each of items
OneAttemptEach(log, category, items, before) ==
    /\ AttemptsOf(log, category) = (before + 1)..(before + Len(items))
    /\ \A i \in DOMAIN items : log[before + i].item = items[i]
\* the flush of the accumulator user_data left this log and this result
IsolatedFlush(user_data, log, ret) ==
    /\ OneAttemptEach(log, "reflections", user_data.reflections, 0)
    /\ OneAttemptEach(log, "goals", user_data.goals,
                      Len(user_data.reflections))
    /\ OneAttemptEach(log, "feedback", user_data.feedback,
                      Len(user_data.reflections) + Len(user_data.goals))
    /\ ret.reflections_processed = Cardinality(Succeeded(log, "reflections"))
    /\ ret.goals_processed = Cardinality(Succeeded(log, "goals"))
    /\ ret.feedback_processed = Cardinality(Succeeded(log, "feedback"))
    /\ ret.reflections_processed \in 0..Len(user_data.reflections)
    /\ ret.goals_processed \in 0..Len(user_data.goals)
    /\ ret.feedback_processed \in 0..Len(user_data.feedback)
    /\ Cardinality(AttemptsOf(log, "states")) = 1

\* C26: in a flush every accumulated reflection, task payload and feedback
\* item gets exactly one write attempt whatever the outcome of the earlier
\* writes, each count of the result is the number of writes of its category
\* that succeeded, and the state write is attempted even when item writes
\* failed.
C26_PerItemIsolation ==
    [][(last'.op = "flush" /\ steps' # steps
        /\ Has(pending_data, last'.user))
       => IsolatedFlush(pending_data[last'.user], last'.arg,
                        last'.ret.value)]_vars

\* a flush of two reflections and a task payload whose first write failed:
\* the later writes were attempted and counted, the state write too
C26_Witness ==
    /\ last.op = "flush"
    /\ Len(last.arg) = 4
    /\ ~last.arg[1].success
    /\ last.arg[2].success /\ last.arg[3].success
    /\ last.arg[3].category = "goals"
    /\ last.arg[4].category = "states"
    /\ last.ret.value.reflections_processed = 1
    /\ last.ret.value.goals_processed = 1

\* the records a flush step added outside the states collection
NewItemRecords ==
    UNION {{<<c, id>> : id \in NewRecords(c)} : c \in Collections \ {"states"}}
\* the one state write of a flush: the last attempt of the log, made with the
\* counts of the accumulator as it was before the clearing and with the
\* narrative; its record, if written, is later than every record of the
\* uploads; the result reports its outcome
OneStateWriteLast(user_data, log, ret) ==
    /\ AttemptsOf(log, "states") = {Len(log)}
    /\ log[Len(log)].item = aggregated_data_of(user_data)
    /\ ret.state_updated = log[Len(log)].success
    /\ Cardinality(NewRecords("states"))
           = IF log[Len(log)].success THEN 1 ELSE 0
    /\ \A sid \in NewRecords("states") :
           /\ store'["states"][sid].page_content = "state analysis"
           /\ store'["states"][sid].metadata["reflection_count"]
                  = PyInt(Len(user_data.reflections))
           /\ \A r \in NewItemRecords :
                  store'[r[1]][r[2]].metadata["timestamp"].v
                      < store'["states"][sid].metadata["timestamp"].v

\* C27: a flush that found data attempts exactly one state-record write,
\* after every reflection, goal and feedback upload and with the narrative,
\* before the accumulator is cleared; state_updated is the outcome of that
\* write.
C27_OneStateWrite ==
    [][(last'.op = "flush" /\ steps' # steps
        /\ Has(pending_data, last'.user))
       => /\ OneStateWriteLast(pending_data[last'.user], last'.arg,
                               last'.ret.value)
          /\ pending_data'[last'.user] = EmptyUserData]_vars

\* a flush wrote a reflection and then the state record that counts it
C27_Witness ==
    /\ last.op = "flush"
    /\ Len(last.arg) = 2
    /\ last.arg[1].category = "reflections" /\ last.arg[1].success
    /\ last.arg[2].category = "states" /\ last.arg[2].success
    /\ last.ret.value.state_updated
    /\ \E sid \in DOMAIN store["states"] :
           store["states"][sid].metadata["reflection_count"] = PyInt(1)

\* history is the lines of the last n messages of conversation, in order
LinesOfLast(history, conversation, n) ==
    /\ Len(history) = n
    /\ \A i \in 1..n :
           LET msg == conversation[Len(conversation) - n + i] IN
           /\ history[i][1] = (IF msg.role = "user" THEN "USER" ELSE "ASSISTANT")
           /\ history[i][2] = msg.content
\* a continue of a session prompts with the last 6 messages at most and
\* appends the new exchange to the whole buffer
WindowedContinue(u) ==
    LET conversation == conversation_buffer[u] IN
    /\ LinesOfLast(last'.arg.history, conversation,
                   IF Len(conversation) < 6 THEN Len(conversation) ELSE 6)
    /\ conversation_buffer'[u]
           = conversation \o <<Message("user", last'.arg.input),
                               Message("assistant", last'.ret.value)>>
\* an end of a session prompts with every message of the buffer
WholeEnd(u) ==
    LinesOfLast(last'.arg.history, conversation_buffer[u],
                Len(conversation_buffer[u]))

\* C28: continueSession on an active session builds its prompt history from
\* the last 6 buffered messages only, while the buffer keeps every message;
\* endSession summarizes the whole buffered conversation however long it is.
C28_WindowedHistory ==
    [][/\ (last'.op = "continueSession" /\ steps' # steps /\ last'.arg.active)
          => WindowedContinue(last'.user)
       /\ (last'.op = "endSession" /\ steps' # steps /\ last'.arg.active)
          => WholeEnd(last'.user)]_vars

\* a continue on a buffer of 8 messages prompted with 6 and left 10
C28_Witness ==
    /\ last.op = "continueSession"
    /\ Len(last.arg.history) = 6
    /\ Len(conversation_buffer[last.user]) = 10
    /\ last.arg.history[1] = <<"USER", conversation_buffer[last.user][3].content>>

\* an end of a session of 8 messages prompted with all 8
C28_WitnessEnd ==
    /\ last.op = "endSession"
    /\ last.arg.active
    /\ Len(last.arg.history) = 8

\* the value the planning reply of the last plan decoded to
PlanLoaded == json_loads(goals_json_text(last.arg))
\* the positions of the elements of an array that validate as a Goal
ValidAt(elems) ==
    {i \in DOMAIN elems : elems[i].t = "object" /\ elems[i].m \in {"G", "H"}}
\* goals holds the goals of the validating elements of elems, in their order
ExactlyTheValid(goals, elems) ==
    /\ Len(goals) = Cardinality(ValidAt(elems))
    /\ \A i \in ValidAt(elems) :
           goals[Cardinality({j \in ValidAt(elems) : j <= i})]
               = GoalOfObject(elems[i].m)

\* C29: when the planning reply decodes to an array, plan returns the goals
\* of exactly the elements that validate as a Goal, in the order of the
\* array, skipping the others; the fallback goal is returned only when no
\* element validates.
C29_ValidGoalsInOrder ==
    (last.op = "plan" /\ PlanLoaded.t = "array")
    => IF ValidAt(PlanLoaded.e) = {}
       THEN last.ret.value.goals = _create_fallback_goal
       ELSE ExactlyTheValid(last.ret.value.goals, PlanLoaded.e)

\* the reply was an array of an element that does not validate and one that
\* does: plan returned the goal of the second alone
C29_Witness ==
    /\ last.op = "plan"
    /\ PlanLoaded.t = "array"
    /\ Len(PlanLoaded.e) = 2
    /\ ValidAt(PlanLoaded.e) = {2}
    /\ last.ret.value.goals = <<GoalOfObject(PlanLoaded.e[2].m)>>

\* the reply was an array of two different goals, returned in its order
C29_WitnessOrder ==
    /\ last.op = "plan"
    /\ PlanLoaded.t = "array"
    /\ Len(PlanLoaded.e) = 2
    /\ PlanLoaded.e[1].m = "H" /\ PlanLoaded.e[2].m = "G"
    /\ last.ret.value.goals = <<GoalOfObject("H"), GoalOfObject("G")>>

\* in trace, every b comes after an a
Before(trace, a, b) ==
    \A j \in DOMAIN trace :
        trace[j] = b => \E i \in 1..(j - 1) : trace[i] = a
\* the statements a handler has run are in the order summarize, plan,
\* external sync, collect, flush
PipelineOrder(trace) ==
    /\ Before(trace, "summarize", "plan")
    /\ Before(trace, "plan", "sync")
    /\ Before(trace, "sync", "collect_goals")
    /\ Before(trace, "collect_goals", "flush")
    /\ Before(trace, "collect_goals", "queue_flush")
\* a handler whose sync gave an error status still collects the goals and
\* runs or queues the flush
SyncErrorTolerated(frame) ==
    (frame.pc = "done" /\ frame.calendar_sync = "error")
    => /\ \E i \in DOMAIN frame.trace : frame.trace[i] = "collect_goals"
       /\ \E i \in DOMAIN frame.trace :
              frame.trace[i] \in {"flush", "queue_flush"}

\* C30: in the HTTP end_reflection handler and in the Reflection page the
\* statements run in the order summarize, plan, external sync, collect,
\* flush, and an error status of the sync never keeps the planned goals from
\* being collected and flushed.
C30_PipelineOrder ==
    \A t \in Threads :
        calls[t].pc \in {"pipeline", "done"}
        => /\ PipelineOrder(calls[t].trace)
           /\ SyncErrorTolerated(calls[t])

\* the number of calls of a provider among the attempts of an invocation
AttemptsOn(attempts, provider) ==
    Cardinality({i \in DOMAIN attempts : attempts[i] = provider})

\* C31: an invocation of the language model calls the primary provider at
\* most once and the fallback provider at most once (never when it is not
\* configured or the primary answered), never raises, and returns the fixed
\* apology when every call failed; syncExternal makes at most one webhook
\* request per call.
C31_BoundedAttempts ==
    /\ last.op = "invoke"
       => /\ AttemptsOn(last.arg.attempts, "primary") = 1
          /\ AttemptsOn(last.arg.attempts, "backup")
                 = (IF last.arg.primary.ok \/ last.arg.backup_llm = None
                    THEN 0 ELSE 1)
          /\ Len(last.arg.attempts) <= 2
          /\ last.ret.exc = None
          /\ last.ret.value =
                 (IF last.arg.primary.ok THEN last.arg.primary.content
                  ELSE IF last.arg.backup_llm # None /\ last.arg.backup.ok
                  THEN last.arg.backup.content
                  ELSE Apology)
    /\ last.op = "syncExternal"
       => /\ Len(last.arg.requests) <= 1
          /\ Len(last.arg.requests) = 0 <=> last.arg.outcome = "unconfigured"
          /\ last.ret.exc = None

\* both providers were called once each, both failed, the apology came back
C31_Witness ==
    /\ last.op = "invoke"
    /\ last.arg.attempts = <<"primary", "backup">>
    /\ ~last.arg.primary.ok /\ ~last.arg.backup.ok
    /\ last.ret = Return(Apology)

\* the three lists of u, empty when u has no accumulator yet
ListsOf(pd, u) == IF Has(pd, u) THEN pd[u] ELSE EmptyUserData
\* the step changed the accumulator of u to lists and no other
OnlyListsOf(u, lists) ==
    /\ DOMAIN pending_data' = DOMAIN pending_data \cup {u}
    /\ pending_data'[u] = lists
    /\ \A v \in DOMAIN pending_data \ {u} :
           pending_data'[v] = pending_data[v]

\* C32: the collectors create the accumulator of a user when it is missing
\* and only append: each collect leaves the user's list of its category as
\* it was followed by what was collected, duplicates included, and the other
\* lists as they were; collectFeedback of an empty list changes nothing and
\* creates no accumulator.
C32_CollectorsAppend ==
    [][steps' # steps =>
       /\ last'.op = "collectReflection"
          => OnlyListsOf(last'.user,
                 [ListsOf(pending_data, last'.user)
                     EXCEPT !.reflections = Append(@, last'.arg)])
       /\ last'.op = "collectGoals"
          => OnlyListsOf(last'.user,
                 [ListsOf(pending_data, last'.user)
                     EXCEPT !.goals = Append(@, last'.arg)])
       /\ last'.op = "collectFeedback"
          => IF Len(last'.arg) = 0 THEN pending_data' = pending_data
             ELSE OnlyListsOf(last'.user,
                      [ListsOf(pending_data, last'.user)
                          EXCEPT !.feedback = @ \o last'.arg])]_vars

\* the same summary was collected twice and is held twice, after a task
\* payload collected in between
C32_Witness ==
    /\ last.op = "collectReflection"
    /\ Len(pending_data[last.user].reflections) = 2
    /\ pending_data[last.user].reflections[1] = last.arg
    /\ pending_data[last.user].reflections[2] = last.arg
    /\ Len(pending_data[last.user].goals) = 1

\* an empty feedback list was collected for a user who has no accumulator
C32_WitnessEmpty ==
    /\ last.op = "collectFeedback"
    /\ Len(last.arg) = 0
    /\ ~Has(pending_data, last.user)

-----------------------------------------------------------------------------
(* SpecFlushRace: process_and_update_memory on a thread of the server's    *)
(* pool, one action per access to the shared accumulator, beside the       *)
(* collectors of the handlers.  user_data at line 620 is the user's dict   *)
(* itself, not a copy: the loops see what a collector appends to its lists *)
(* until a clear puts a new dict in its place (line 740); from then on a   *)
(* flush still running holds the old dict, which nothing appends to.       *)

\* a call of process_and_update_memory in progress: the loop or statement it
\* is at, whether user_data still is the user's accumulator (live) and what
\* it held when it stopped being so, the position of the loop's iterator, the
\* results dict, the log of the write attempts, and what it handed back
FlushFrame(pc, user_id, live, user_data, i, results, log, ret) == [pc |-> pc, user_id |-> user_id, live |-> live, user_data |-> user_data, i |-> i, results |-> results, log |-> log, ret |-> ret]

held_data(pd, frame) ==
    IF frame.live THEN pd[frame.user_id] ELSE frame.user_data

\* lines 624-629
NoResults ==
    [reflections |-> 0, goals |-> 0, feedback |-> 0, state_updated |-> FALSE]

\* lines 620-629
flush_begin(pd, user_id) ==
    IF ~Has(pd, user_id)
    THEN FlushFrame("done", user_id, FALSE, EmptyUserData, 1, NoResults, <<>>,
                    Return(NoData))
    ELSE FlushFrame("reflections", user_id, TRUE, EmptyUserData, 1, NoResults,
                    <<>>, Return(None))

NextLoop(category) ==
    IF category = "reflections" THEN "goals"
    ELSE IF category = "goals" THEN "feedback"
    ELSE "state"

\* lines 631-666, one turn of the for loop the call is in: the iterator
\* either gives the item at its position, which is uploaded, or finds the
\* list at its end, which ends the loop
flush_next(pd, memory, frame, ok) ==
    LET items == held_data(pd, frame)[frame.pc] IN
    IF frame.i > Len(items)
    THEN [db |-> memory, frame |-> [frame EXCEPT !.pc = NextLoop(@), !.i = 1]]
    ELSE LET a == Uploaded([db |-> memory, count |-> frame.results[frame.pc],
                            log |-> frame.log, i |-> frame.i],
                           frame.pc, items[frame.i],
                           UploadItem(memory, frame.user_id, frame.pc,
                                      items[frame.i], ok))
         IN [db |-> a.db,
             frame |-> [frame EXCEPT !.results[frame.pc] = a.count,
                                     !.log = a.log, !.i = a.i]]

\* lines 668-683
flush_state_write(pd, memory, frame, ok) ==
    LET aggregated_data == aggregated_data_of(held_data(pd, frame))
        r == upload_user_state(memory, frame.user_id, "state analysis",
                               aggregated_data, ok)
    IN [db |-> r.db,
        frame |-> [frame EXCEPT
                      !.pc = "clear",
                      !.results.state_updated = r.success,
                      !.log = Append(@, [category |-> "states",
                                         item |-> aggregated_data,
                                         success |-> r.success])]]

\* the frame of another call once the accumulator of user_id is replaced
detached(pd, frame, user_id) ==
    IF frame.pc \in {"reflections", "goals", "feedback", "state", "clear"}
       /\ frame.live /\ frame.user_id = user_id
    THEN [frame EXCEPT !.live = FALSE, !.user_data = pd[user_id]]
    ELSE frame

\* lines 688-689
flush_return(pd, frame) ==
    [frame EXCEPT
        !.pc = "done", !.user_data = held_data(pd, frame),
        !.ret = Return([reflections_processed |-> frame.results.reflections,
                        goals_processed |-> frame.results.goals,
                        feedback_processed |-> frame.results.feedback,
                        state_updated |-> frame.results.state_updated])]

\* the write attempts a call has made for a category
Attempted(frame, category) ==
    Cardinality({k \in DOMAIN frame.log : frame.log[k].category = category})

\* a clear that keeps what the loops of the call have not reached
flush_clear_keeping(pd, frame) ==
    [pd |-> Put(pd, frame.user_id,
                [c \in DOMAIN EmptyUserData |->
                    SubSeq(pd[frame.user_id][c], Attempted(frame, c) + 1,
                           Len(pd[frame.user_id][c]))]),
     frame |-> flush_return(pd, frame)]

\* lines 685-689
flush_clear(pd, frame) ==
    [pd |-> _clear_user_data(pd, frame.user_id),
     frame |-> flush_return(pd, frame)]

FlushBegin(t, u) ==
    /\ calls[t].pc \in {"idle", "done"}
    /\ calls' = [calls EXCEPT ![t] = flush_begin(pending_data, u)]
    /\ last' = Called("flush.begin", u, t, calls'[t].ret)
    /\ UNCHANGED <<conversation_buffer, pending_tasks, feedback_buffer,
                   pending_data, store, clock, background_tasks>>

FlushNext(t, ok) ==
    /\ calls[t].pc \in {"reflections", "goals", "feedback"}
    /\ LET r == flush_next(pending_data, db, calls[t], ok) IN
       /\ store' = r.db.store
       /\ clock' = r.db.clock
       /\ calls' = [calls EXCEPT ![t] = r.frame]
       /\ last' = Called(IF r.frame.pc # calls[t].pc THEN "flush.loopEnd"
                         ELSE "flush.upload",
                         calls[t].user_id, t, Return(calls[t].pc))
    /\ UNCHANGED <<conversation_buffer, pending_tasks, feedback_buffer,
                   pending_data, background_tasks>>

FlushState(t, ok) ==
    /\ calls[t].pc = "state"
    /\ LET r == flush_state_write(pending_data, db, calls[t], ok) IN
       /\ store' = r.db.store
       /\ clock' = r.db.clock
       /\ calls' = [calls EXCEPT ![t] = r.frame]
       /\ last' = Called("flush.state", calls[t].user_id, t,
                         Return(r.frame.results.state_updated))
    /\ UNCHANGED <<conversation_buffer, pending_tasks, feedback_buffer,
                   pending_data, background_tasks>>

FlushClear(t) ==
    /\ calls[t].pc = "clear"
    /\ LET r == flush_clear(pending_data, calls[t]) IN
       /\ pending_data' = r.pd
       /\ calls' = [x \in Threads |->
                       IF x = t THEN r.frame
                       ELSE detached(pending_data, calls[x],
                                     calls[t].user_id)]
       /\ last' = Called("flush.clear", calls[t].user_id, t, r.frame.ret)
    /\ UNCHANGED <<conversation_buffer, pending_tasks, feedback_buffer, store,
                   clock, background_tasks>>

\* the items a user's accumulator holds
Held(u) ==
    IF Has(pending_data, u)
    THEN Len(pending_data[u].reflections) + Len(pending_data[u].goals)
         + Len(pending_data[u].feedback)
    ELSE 0

FlushRaceStep == Tick(MaxFlushRaceSteps)

NextFlushRace ==
    \/ \E summary \in SummaryArgs(RaceUser) :
           /\ Held(RaceUser) < MaxHeld
           /\ CollectReflection(summary) /\ Step(MaxFlushRaceSteps)
    \/ \E feedback_list \in FeedbackLists(RaceUser) \ {<<>>} :
           /\ Held(RaceUser) + Len(feedback_list) <= MaxHeld
           /\ CollectFeedback(RaceUser, feedback_list)
           /\ Step(MaxFlushRaceSteps)
    \/ \E t \in Threads : FlushBegin(t, RaceUser) /\ FlushRaceStep
    \/ \E t \in Threads : \E ok \in BOOLEAN : FlushNext(t, ok) /\ FlushRaceStep
    \/ \E t \in Threads : \E ok \in BOOLEAN : FlushState(t, ok) /\ FlushRaceStep
    \/ \E t \in Threads : FlushClear(t) /\ FlushRaceStep

SpecFlushRace == Init /\ [][NextFlushRace]_vars

\* the items of a category a call has attempted to write, in order
AttemptedItems(frame, category) ==
    LET entries == SelectSeq(frame.log, LAMBDA e : e.category = category)
    IN [k \in DOMAIN entries |-> entries[k].item]

\* C33: a flush for a user runs beside the collectors for that user: its
\* clear makes no write attempt and empties the three lists whatever they
\* hold, while the call has attempted exactly the items its loops reached, a
\* prefix of each list; so an item collected after the loop of its category
\* ended and before the clear is removed without any write attempt.
C33_ItemLostAtClear ==
    [][(last'.op = "flush.clear" /\ steps' # steps) =>
       LET frame == calls[last'.arg]
           user_data == held_data(pending_data, frame)
       IN /\ store' = store
          /\ calls'[last'.arg].log = frame.log
          /\ pending_data'[frame.user_id] = EmptyUserData
          /\ \A c \in DOMAIN EmptyUserData :
                /\ Attempted(frame, c) <= Len(user_data[c])
                /\ AttemptedItems(frame, c)
                       = SubSeq(user_data[c], 1, Attempted(frame, c))]_vars

\* a flush alone on the accumulator has returned with the state record
\* written: the dict it cleared held a reflection its loop never reached, the
\* accumulator is empty and the store has no reflection record
C33_Witness ==
    /\ last.op = "flush.clear"
    /\ calls[last.arg].live
    /\ calls[last.arg].ret.value.state_updated
    /\ Len(calls[last.arg].user_data.reflections) = 1
    /\ Attempted(calls[last.arg], "reflections") = 0
    /\ Attempted(calls[last.arg], "feedback") = 1
    /\ pending_data[last.user] = EmptyUserData
    /\ store["reflections"] = EmptyDict

\* the collection the items of a category are written to
CollectionOf(category) ==
    IF category = "feedback" THEN "interactions" ELSE category

\* two calls in progress that hold the same dict: both read the accumulator
\* of one user and no clear has replaced it since
SameBatch(f, g) ==
    /\ f.pc \in {"reflections", "goals", "feedback", "state", "clear"}
    /\ g.pc \in {"reflections", "goals", "feedback", "state", "clear"}
    /\ f.user_id = g.user_id
    /\ f.live /\ g.live

\* C34: two flushes for one user run at the same time: every write a call
\* makes that succeeds adds exactly one record under a document id the store
\* did not hold, also when the other call, holding the same dict, has
\* written the very same item or a state record already; a write that fails
\* changes nothing.  So an item both calls reach is written twice under
\* different ids and each call writes a state record of its own.
C34_WrittenByBoth ==
    [][(last'.op \in {"flush.upload", "flush.state"} /\ steps' # steps) =>
       LET t == last'.arg
           frame == calls[t]
           e == calls'[t].log[Len(calls'[t].log)]
       IN /\ Len(calls'[t].log) = Len(frame.log) + 1
          /\ IF e.success
             THEN /\ Cardinality(NewRecords(CollectionOf(e.category))) = 1
                  /\ \A c \in Collections \ {CollectionOf(e.category)} :
                        store'[c] = store[c]
                  /\ \A id \in DOMAIN store[CollectionOf(e.category)] :
                        store'[CollectionOf(e.category)][id]
                            = store[CollectionOf(e.category)][id]
             ELSE store' = store
          /\ \A o \in Threads \ {t} :
                (/\ SameBatch(frame, calls[o])
                 /\ e.category # "states"
                 /\ Attempted(calls[o], e.category) >= frame.i)
                => AttemptedItems(calls[o], e.category)[frame.i] = e.item]_vars

\* one reflection was collected and is still held; both calls read it, wrote
\* it and wrote a state record, and neither has cleared: the store has two
\* reflection records of the same content and two state records
C34_Witness ==
    /\ last.op = "flush.state"
    /\ SameBatch(calls["t1"], calls["t2"])
    /\ calls["t1"].pc = "clear" /\ calls["t2"].pc = "clear"
    /\ Len(pending_data[last.user].reflections) = 1
    /\ Len(pending_data[last.user].goals) = 0
    /\ Len(pending_data[last.user].feedback) = 0
    /\ \A t \in Threads :
          /\ Len(calls[t].log) = 2
          /\ calls[t].log[1].success /\ calls[t].log[2].success
          /\ calls[t].log[1].item = pending_data[last.user].reflections[1]
    /\ Cardinality(RecordsOf(store["reflections"], last.user)) = 2
    /\ \A a, b \in RecordsOf(store["reflections"], last.user) :
          store["reflections"][a].page_content
              = store["reflections"][b].page_content
    /\ Cardinality(RecordsOf(store["states"], last.user)) = 2

-----------------------------------------------------------------------------
(* SpecIsolation: the operations of the four agents for two users *)

\* feedback lists whose first item is u's; the second may be anybody's
MixedFeedbackLists(u) ==
    {<<f>> : f \in FeedbackArgs(u)}
    \cup UNION {{<<f, g>> : f \in FeedbackArgs(u), g \in FeedbackArgs(v)} :
                   v \in Users}

NextIsolation ==
    \/ \E u \in Users : StartSession(u, "m1") /\ Step(MaxIsolationSteps)
    \/ \E u \in Users : ContinueSession(u, "m2") /\ Step(MaxIsolationSteps)
    \/ \E u \in Users : EndSession(u, ReplyK) /\ Step(MaxIsolationSteps)
    \/ \E u \in Users : \E summary \in SummaryArgs(u) :
           Plan(summary, ReplyGoals) /\ Step(MaxIsolationSteps)
    \/ \E u \in Users : \E feedback \in FeedbackArgs(u) :
           RecordFeedback(feedback) /\ Step(MaxIsolationSteps)
    \/ \E u \in Users : DrainFeedback(u) /\ Step(MaxIsolationSteps)
    \/ \E u \in Users : \E summary \in SummaryArgs(u) :
           CollectReflection(summary) /\ Step(MaxIsolationSteps)
    \/ \E u \in Users : \E task_payload \in PayloadArgs(u) :
           CollectGoals(task_payload) /\ Step(MaxIsolationSteps)
    \/ \E u \in Users : \E feedback_list \in MixedFeedbackLists(u) :
           CollectFeedback(feedback_list[1].user_id, feedback_list)
           /\ Step(MaxIsolationSteps)
    \/ \E u \in Users :
           \E oks \in FlushOutcomes(FlushWrites(pending_data, u)) :
               Flush(u, oks) /\ Step(MaxIsolationSteps)

SpecIsolation == Init /\ [][NextIsolation]_vars

\* what a per-user dict holds for user v is the same in d and in e
SameFor(d, e, v) ==
    /\ Has(d, v) <=> Has(e, v)
    /\ Has(d, v) => d[v] = e[v]

\* C35: an operation of an agent for a user leaves what the session buffer,
\* the goal cache, the feedback buffer and the accumulator hold for every
\* other user as it was, and every record a flush for a user adds to the
\* store carries that user's id, the records already there staying as they
\* were.
C35_PerUserIsolation ==
    [][steps' # steps =>
       /\ \A v \in Users \ {last'.user} :
             /\ SameFor(conversation_buffer, conversation_buffer', v)
             /\ SameFor(pending_tasks, pending_tasks', v)
             /\ SameFor(feedback_buffer, feedback_buffer', v)
             /\ SameFor(pending_data, pending_data', v)
       /\ last'.op = "flush"
          => /\ RecordsKept
             /\ \A c \in Collections : \A id \in NewRecords(c) :
                   store'[c][id].metadata["user_id"] = PyStr(last'.user)
       /\ last'.op # "flush" => store' = store]_vars

\* a flush for one user has written a feedback item that names another
\* user, while that other user has a session, cached goals or items held
C35_Witness ==
    /\ last.op = "flush"
    /\ \E i \in DOMAIN last.arg :
          /\ last.arg[i].category = "feedback"
          /\ last.arg[i].success
          /\ last.arg[i].item.user_id # last.user
    /\ \E v \in Users \ {last.user} : Has(pending_data, v)

\* a conversation of whole exchanges: not empty, of even length, the user's
\* messages at the odd positions and the assistant's at the even ones
Alternating(conversation) ==
    /\ conversation # <<>>
    /\ Len(conversation) % 2 = 0
    /\ \A i \in DOMAIN conversation :
          conversation[i].role = IF i % 2 = 1 THEN "user" ELSE "assistant"

\* C36: the session buffer a user has is never empty, is of even length and
\* alternates user and assistant messages from a user message on;
\* startSession leaves exactly the two messages of its exchange, and
\* continueSession on an active session appends exactly the two of its own,
\* so that a start and n continues leave 2(n+1) messages.
C36_WholeExchanges ==
    [][steps' # steps =>
       /\ \A u \in DOMAIN conversation_buffer' :
             Alternating(conversation_buffer'[u])
       /\ last'.op = "startSession"
          => conversation_buffer'[last'.user]
                 = <<Message("user", last'.arg.input),
                     Message("assistant", last'.ret.value)>>
       /\ (last'.op = "continueSession"
           /\ Has(conversation_buffer, last'.user))
          => conversation_buffer'[last'.user]
                 = conversation_buffer[last'.user]
                   \o <<Message("user", last'.arg.input),
                        Message("assistant", last'.ret.value)>>]_vars

\* a start and three continues have left eight messages
C36_Witness ==
    /\ last.op = "continueSession"
    /\ steps = 4
    /\ last.arg.active
    /\ Len(conversation_buffer[last.user]) = 8

-----------------------------------------------------------------------------
(* SpecThreshold: the ranking over candidates of every number of community *)
(* keywords, with and without a query term in the title, with and without  *)
(* an exclusion keyword.                                                    *)

\* community_keywords in the order of lines 458-462
CommunityKeywordList ==
    <<"support", "community", "group", "forum", "recovery", "addiction",
      "help", "peer", "online", "reddit", "discord", "therapy", "counseling",
      "anonymous", "meeting">>
\* a candidate whose snippet holds the first k community keywords
GradedCandidate(k, in_title, shop) ==
    Candidate(SearchText((IF in_title THEN {"sobriety"} ELSE {})
                         \cup (IF shop THEN {"shop"} ELSE {}), 20),
              SearchText({CommunityKeywordList[i] : i \in 1..k}, 100))
GradedCandidates ==
    {GradedCandidate(k, in_title, shop) :
        k \in 0..Len(CommunityKeywordList), in_title \in BOOLEAN,
        shop \in BOOLEAN}
GradedLists ==
    {parse_results(organic) :
        organic \in UNION {[1..n -> GradedCandidates] : n \in 1..MaxGraded}}

InitThreshold ==
    InitState /\ llm_response = None /\ serper_response \in GradedLists

NextThreshold ==
    \/ Search("u1", serper_response, {"sobriety"}, EmptyDict) /\ Scripted

SpecThreshold == InitThreshold /\ [][NextThreshold]_vars

\* the positions of the candidates the recommendations come from
PositionsOf(recommendations) ==
    {recommendations[a].source_position : a \in DOMAIN recommendations}
\* the candidates without exclusion keyword that hold two community keywords
\* or more
TwoKeywordPositions(arg) ==
    {i \in DOMAIN arg.search_results :
        LET result == arg.search_results[i] IN
        /\ (result.title.has \cup result.snippet.has)
               \cap ExcludedFor(arg.filters) = {}
        /\ Cardinality((result.title.has \cup result.snippet.has)
                       \cap {CommunityKeywordList[k] :
                                k \in DOMAIN CommunityKeywordList}) >= 2}

\* C37: whether a candidate without exclusion keyword is kept does not
\* depend on the boost for a query term in the title: the candidates kept
\* are those that hold at least two of the 15 community keywords in title
\* and snippet, and they are the ones kept for a query none of whose terms
\* is in a title; the boost changes the order only.
C37_KeptFromTwoKeywords ==
    last.op = "search"
    => LET out == last.ret.value
           unboosted == _filter_and_rank(last.arg.search_results, {},
                                         last.arg.filters)
       IN /\ PositionsOf(out) \subseteq TwoKeywordPositions(last.arg)
          /\ Len(out) < 5 => PositionsOf(out) = TwoKeywordPositions(last.arg)
          /\ Len(out) < 5 => PositionsOf(out) = PositionsOf(unboosted)
          /\ Len(out) = Cardinality(PositionsOf(out))

\* a candidate with one keyword and the query term in its title, whose
\* boosted score is exactly 0.1, was dropped; the next, with two keywords and
\* no query term in its title, was kept
C37_Witness ==
    /\ last.op = "search"
    /\ Len(last.arg.search_results) = 2
    /\ last.arg.search_results[1].title = GradedCandidate(1, TRUE, FALSE).title
    /\ last.arg.search_results[1].snippet
           = GradedCandidate(1, TRUE, FALSE).snippet
    /\ last.arg.search_results[2].title = GradedCandidate(2, FALSE, FALSE).title
    /\ last.arg.search_results[2].snippet
           = GradedCandidate(2, FALSE, FALSE).snippet
    /\ PositionsOf(last.ret.value) = {2}

\* two candidates with two keywords each were kept, the one with the query
\* term in its title, second in the client's list, ranked first
C37_WitnessRank ==
    /\ last.op = "search"
    /\ Len(last.arg.search_results) = 2
    /\ last.arg.search_results[1].title = GradedCandidate(2, FALSE, FALSE).title
    /\ last.arg.search_results[2].title = GradedCandidate(2, TRUE, FALSE).title
    /\ last.arg.search_results[1].snippet = last.arg.search_results[2].snippet
    /\ Len(last.ret.value) = 2
    /\ last.ret.value[1].source_position = 2

-----------------------------------------------------------------------------
(* SpecFilters: searches of one caller that passes the same filters dict *)

\* search_communities with the dict the caller keeps; a client that found
\* nothing returns before the ranking (lines 432-433)
SearchKeeping(u, search_results, query_terms) ==
    /\ caller_filters' =
           IF search_results = <<>> THEN caller_filters
           ELSE excluded_keywords_extended(caller_filters)
    /\ last' = Called("search", u,
                      [search_results |-> search_results,
                       query_terms |-> query_terms,
                       filters |-> filters_read(caller_filters)],
                      Return(search_communities(search_results, query_terms,
                                 filters_read(caller_filters))))
    /\ steps < MaxFilterSteps /\ steps' = steps + 1
    /\ UNCHANGED <<conversation_buffer, pending_tasks, feedback_buffer,
                   pending_data, store, clock, background_tasks, calls,
                   llm_response, serper_response>>

\* no exclusions of the caller's, an empty list, a list of two
FilterObjects ==
    {[k \in {"community_types"} |-> {"reddit"}],
     [k \in {"excluded_keywords"} |-> <<>>],
     [k \in {"excluded_keywords"} |-> <<"forum", "casino">>]}
KeptResults ==
    {parse_results(organic) :
        organic \in UNION {[1..n -> {CandidateMid, CandidateShop}] :
                              n \in 0..2}}

InitFilters ==
    /\ InitProgram
    /\ llm_response = None /\ serper_response = None
    /\ caller_filters \in FilterObjects

NextFilters ==
    \/ \E search_results \in KeptResults : \E query_terms \in QueryTerms :
           SearchKeeping("u1", search_results, query_terms)

SpecFilters == InitFilters /\ [][NextFilters]_vars

\* C38 as stated: every search with a filters dict that holds an
\* excluded_keywords list appends the 7 built-in exclusion terms to that list.
C38_EverySearchAppends ==
    [][(last'.op = "search" /\ steps' # steps
        /\ Has(caller_filters, "excluded_keywords")) =>
       caller_filters' =
           [caller_filters EXCEPT
               !["excluded_keywords"] = @ \o builtin_excluded_list]]_vars

\* C38: a search whose client found at least one result appends the 7
\* built-in exclusion terms to the excluded_keywords list of the caller's
\* filters, so the list holds its entries followed by 7 more for each such
\* search; a search whose client found nothing, and a search with filters
\* that have no such list, leave the filters as they were; the exclusions in
\* effect stay the same.
C38_SearchWithResultsAppends ==
    [][(last'.op = "search" /\ steps' # steps) =>
       /\ caller_filters' =
              IF Has(caller_filters, "excluded_keywords")
                 /\ last'.arg.search_results # <<>>
              THEN [caller_filters EXCEPT
                       !["excluded_keywords"] = @ \o builtin_excluded_list]
              ELSE caller_filters
       /\ ExcludedFor(filters_read(caller_filters'))
              = ExcludedFor(filters_read(caller_filters))]_vars

\* three searches with results have left the caller's two entries followed
\* by 21 added ones
C38_Witness ==
    /\ last.op = "search"
    /\ steps = 3
    /\ Has(caller_filters, "excluded_keywords")
    /\ Len(caller_filters["excluded_keywords"]) = 2 + 3 * 7
    /\ SubSeq(caller_filters["excluded_keywords"], 1, 2) = <<"forum", "casino">>
    /\ SubSeq(caller_filters["excluded_keywords"], 17, 23)
           = builtin_excluded_list

-----------------------------------------------------------------------------
(* SpecHistory: flushes and the maintenance delete over the state records. *)
(* The id of a state record is made of the user id and of the reading of   *)
(* datetime.now() (memory.py line 240), and a clock of finite resolution   *)
(* gives the reading of the last record again until it has ticked.         *)

\* the latest timestamp of the records stored
LatestReading ==
    LET stamps == UNION {{store[c][id].metadata["timestamp"].v :
                             id \in DOMAIN store[c]} : c \in Collections}
    IN IF stamps = {} THEN clock
       ELSE CHOOSE n \in stamps : \A m \in stamps : m <= n

\* what datetime.now() can read in a flush for u: a new reading, or, when
\* the flush has only the state record to write, also the reading of the
\* last record stored (a flush that writes items draws a uuid4 for each,
\* which the same counter stands for, and is given new readings only)
Readings(u) ==
    IF Has(pending_data, u) /\ Held(u) = 0
    THEN {n \in 0..clock : n >= LatestReading}
    ELSE {clock}

\* process_and_update_memory while the clock reads now
FlushReading(u, oks, now) ==
    LET r == process_and_update_memory(pending_data,
                 [store |-> store, clock |-> now], u, oks) IN
    /\ pending_data' = r.pd
    /\ store' = r.db.store
    /\ clock' = clock + (r.db.clock - now)
    /\ last' = Called("flush", u, r.log, Return(r.ret))
    /\ UNCHANGED <<conversation_buffer, pending_tasks, feedback_buffer,
                   background_tasks>>

NextHistory ==
    \/ \E u \in Users : \E summary \in SummaryArgs(u) :
           CollectReflection(summary) /\ Step(MaxHistorySteps)
    \/ \E u \in Users :
       \E oks \in FlushOutcomes(FlushWrites(pending_data, u)) :
       \E now \in Readings(u) :
           FlushReading(u, oks, now) /\ Step(MaxHistorySteps)
    \/ \E u \in Users : \E cutoff \in 0..MaxHistorySteps :
       \E fault \in {0, 1, 2} :
           DeleteOldData(u, cutoff, fault) /\ Step(MaxHistorySteps)

SpecHistory == Init /\ [][NextHistory]_vars

\* C39: the state history is append-only: no operation, the maintenance
\* delete included, removes or changes a state record, and a flush that
\* found data and whose state write succeeded leaves the user one state
\* record more.
C39_AppendOnly ==
    [][steps' # steps =>
       /\ \A id \in DOMAIN store["states"] :
             /\ id \in DOMAIN store'["states"]
             /\ store'["states"][id] = store["states"][id]
       /\ (last'.op = "flush" /\ last'.arg # <<>>
           /\ last'.ret.value.state_updated)
          => Cardinality(RecordsOf(store'["states"], last'.user))
                 = Cardinality(RecordsOf(store["states"], last'.user)) + 1]_vars

====
